---- MODULE Spec2Model ----
(***************************************************************************)
(* Booking allocation, availability, operating calendar and booking        *)
(* lifecycle of the restaurant backend: the current application (src/app)  *)
(* and the earlier generation of its booking endpoints (src/controllers).  *)
(* The relational store is the only shared state; request handlers and     *)
(* scheduler jobs are the actions, split at their database round trips     *)
(* where concurrent sessions can interleave.                               *)
(***************************************************************************)
EXTENDS Integers, Sequences, FiniteSets, TLC

(***************************************************************************)
(* Bounds of the model                                                     *)
(***************************************************************************)
MaxBookings == 2
MaxGuests == 2
MaxTicks == 2
MaxTables == 5
MaxOrderItems == 2
MaxStock == 3

Procs == {1, 2}

(***************************************************************************)
(* Static rows: restaurants, users, policy, operating hours                *)
(***************************************************************************)
\* Python None (an absent user_id, an absent row)
None == 0
\* float('inf'): the sort rank of a table type the caller did not list
Infinity == 99

RestaurantIds == {1, 2, 3}

\* Restaurant.is_deleted
RestaurantDeleted(r) == r = 3

\* User rows: 1 and 2 are customers, 3 and 4 are staff
UserIds == {1, 2, 3, 4}
UserRole(u) == IF u \in {1, 2} THEN "user" ELSE "staff"
UserRestaurant(u) == IF u = 4 THEN 2 ELSE 1

\* restaurant.policy exists for restaurants 1 and 3; restaurant 2 has none
HasPolicy(r) == r \in {1, 3}

\* Restaurant.admin_id
AdminIds == {1, 2}
RestaurantAdmin(r) == IF r = 2 THEN 2 ELSE 1

VARIABLES
    policies,        \* restaurant_policy rows: restaurant id -> [reservation_duration] (minutes)
    operatingHours   \* restaurant_operating_hours rows; times are minutes after midnight

calendarVars == << policies, operatingHours >>

\* the clock starts before the first slot of day 0
StartOfDay == 420

InitPolicies == [r \in { x \in RestaurantIds : HasPolicy(x) } |-> [reservation_duration |-> 60]]

InitOperatingHours ==
    { [restaurant_id |-> 1, day_of_week |-> 0, opening_time |-> 600, closing_time |-> 720],
      [restaurant_id |-> 3, day_of_week |-> 0, opening_time |-> 600, closing_time |-> 720] }

VARIABLES
    now,       \* wall clock, minutes after midnight of day 0
    jobs,      \* job store of the scheduler: set of [booking_id, run_date]
    inflight   \* handlers and jobs between two database round trips: set of [kind, booking_id]

schedulerVars == << now, jobs, inflight >>

VARIABLES
    dailyStats,   \* daily_stats rows in insertion order
    rollupRuns,   \* per worker: the dailyStatsEntry run between its existence check and its commit
    stock,        \* food_item_stock rows: << food_item_id, variant_id >> -> current_stock
    orderItems,   \* order_item rows in insertion order
    foodReq,      \* per worker: the food-order request between its reads and its commit
    slotRuns      \* per restaurant: the last enumeration of its slots by a background task

sideVars == << dailyStats, rollupRuns, stock, orderItems, foodReq, slotRuns >>

\* policy.reservation_duration
ReservationDuration(r) == policies[r].reservation_duration

\* restaurant.operating_hours
RestaurantHours(r) == { h \in operatingHours : h.restaurant_id = r }

\* calendar dates are day numbers; day 0 is a Monday
Dates == {0, 1}
Weekday(d) == d % 7

(***************************************************************************)
(* Pure helpers                                                            *)
(***************************************************************************)
\* strftime("%H:%M") of a time of day given in minutes
FormatHHMM(m) == << (m \div 60) % 24, m % 60 >>

\* a loop that stops at the closing time instead of at the last slot that ends by it
RECURSIVE SlotsUntilClosing(_, _, _)
SlotsUntilClosing(current_time, closing, reservation_duration) ==
    IF current_time < closing
    THEN << FormatHHMM(current_time) >>
         \o SlotsUntilClosing(current_time + reservation_duration, closing, reservation_duration)
    ELSE << >>

RECURSIVE SlotsFrom(_, _, _)
SlotsFrom(current_time, closing, reservation_duration) ==
    IF current_time + reservation_duration <= closing
    THEN << FormatHHMM(current_time) >>
         \o SlotsFrom(current_time + reservation_duration, closing, reservation_duration)
    ELSE << >>

generate_time_slots(opening_time, closing_time, reservation_duration) ==
    SlotsFrom(opening_time, closing_time, reservation_duration)

\* (opening_time, closing_time) of the row of the date's weekday; is_none
\* stands for the (None, None) returned when no row matches
get_opening_closing_time(date_obj, operating_hours) ==
    LET rows == { h \in operating_hours : h.day_of_week = Weekday(date_obj) }
    IN  IF rows = {}
        THEN [is_none |-> TRUE, opening_time |-> None, closing_time |-> None]
        ELSE LET day_info == CHOOSE h \in rows : TRUE
             IN  [is_none |-> FALSE, opening_time |-> day_info.opening_time,
                  closing_time |-> day_info.closing_time]

SeqToSet(s) == { s[i] : i \in 1..Len(s) }

(***************************************************************************)
(* Database tables and in-flight requests                                  *)
(***************************************************************************)
VARIABLES
    tableTypes,     \* table_type rows: id -> [restaurant_id, minimum_capacity, maximum_capacity, is_deleted]
    tables,         \* table_instance rows: id -> [table_type_id, table_number, capacity, is_available, is_deleted]
    bookings,       \* booking rows in id order: bookings[id]
    bookingTables,  \* booking_table rows: set of [booking_id, table_id]
    pc,             \* per worker: "idle" or "commit" (create_booking between its queries and its commit)
    req,            \* per worker: the request in flight with its selected tables
    resp            \* the answer most recently sent by any handler

dbVars == << tableTypes, tables, bookings, bookingTables >>
procVars == << pc, req, resp >>
vars == << tableTypes, tables, bookings, bookingTables, pc, req, resp, policies, operatingHours,
          now, jobs, inflight, dailyStats, rollupRuns, stock, orderItems, foodReq, slotRuns >>

TableTypeIds == DOMAIN tableTypes
TableIds == DOMAIN tables
BookingIds == 1..Len(bookings)

NoRequest == [restaurant_id |-> None, date |-> None, start_time |-> << >>, guest_count |-> 0,
              source |-> "none", user_id |-> None, selected_tables |-> << >>]
NoResponse == [op |-> "none", status |-> 0, message |-> "none"]

Response(op, status, message) == [op |-> op, status |-> status, message |-> message]

InitTableTypes ==
    (1 :> [restaurant_id |-> 1, minimum_capacity |-> 1, maximum_capacity |-> 2, is_deleted |-> FALSE]) @@
    (2 :> [restaurant_id |-> 1, minimum_capacity |-> 2, maximum_capacity |-> 4, is_deleted |-> FALSE]) @@
    (3 :> [restaurant_id |-> 2, minimum_capacity |-> 1, maximum_capacity |-> 2, is_deleted |-> FALSE]) @@
    (4 :> [restaurant_id |-> 1, minimum_capacity |-> 4, maximum_capacity |-> 6, is_deleted |-> FALSE])

InitTables ==
    (1 :> [table_type_id |-> 1, table_number |-> "T1", capacity |-> 1, is_available |-> TRUE,
           is_deleted |-> FALSE]) @@
    (2 :> [table_type_id |-> 1, table_number |-> "T2", capacity |-> 2, is_available |-> TRUE,
           is_deleted |-> FALSE]) @@
    (3 :> [table_type_id |-> 2, table_number |-> "T3", capacity |-> 2, is_available |-> TRUE,
           is_deleted |-> FALSE]) @@
    (4 :> [table_type_id |-> 3, table_number |-> "T1", capacity |-> 1, is_available |-> TRUE,
           is_deleted |-> FALSE])

\* no dailyStatsEntry run / no food-order request in flight
NoRun == [restaurant_id |-> None]
NoFoodRequest == [booking_id |-> None]
\* no slot enumeration has run for the restaurant
NoSlotRun == [task |-> "none"]

\* stock entries of food items 1 and 2, both without variant (variant_id None)
InitStock == (<< 1, None >> :> 2) @@ (<< 2, None >> :> 1)

Init ==
    /\ tableTypes = InitTableTypes
    /\ tables = InitTables
    /\ bookings = << >>
    /\ bookingTables = {}
    /\ pc = [p \in Procs |-> "idle"]
    /\ req = [p \in Procs |-> NoRequest]
    /\ resp = NoResponse
    /\ policies = InitPolicies
    /\ operatingHours = InitOperatingHours
    /\ now = StartOfDay
    /\ jobs = {}
    /\ inflight = {}
    /\ dailyStats = << >>
    /\ rollupRuns = [p \in Procs |-> NoRun]
    /\ stock = InitStock
    /\ orderItems = << >>
    /\ foodReq = [p \in Procs |-> NoFoodRequest]
    /\ slotRuns = [r \in RestaurantIds |-> NoSlotRun]

(***************************************************************************)
(* Booking Allocator: BookingResources.create_booking                      *)
(***************************************************************************)
\* an allocator that counts only the checked-in bookings
CheckedInStatuses == {"active"}

\* statuses of the bookings whose tables count as taken
OccupyingStatuses == {"active", "pending"}

\* table ids held through booking_table by the overlapping bookings
booked_table_ids(restaurant_id, date, start_time) ==
    { bt.table_id : bt \in
        { r \in bookingTables :
            /\ bookings[r.booking_id].restaurant_id = restaurant_id
            /\ bookings[r.booking_id].date = date
            /\ bookings[r.booking_id].start_time = start_time
            /\ bookings[r.booking_id].status \in OccupyingStatuses } }

\* the filter of the available_tables query (table_instance JOIN table_type)
IsAvailableTable(t, restaurant_id, booked) ==
    /\ tableTypes[tables[t].table_type_id].restaurant_id = restaurant_id
    /\ tables[t].is_available
    /\ t \notin booked

available_tables(restaurant_id, date, start_time) ==
    { t \in TableIds :
        IsAvailableTable(t, restaurant_id, booked_table_ids(restaurant_id, date, start_time)) }

\* {type_id: idx for idx, type_id in enumerate(table_type_info)}: a later
\* occurrence of a type overwrites an earlier one
priority_map(table_type_info) ==
    [ ty \in SeqToSet(table_type_info) |->
        (CHOOSE i \in 1..Len(table_type_info) :
            /\ table_type_info[i] = ty
            /\ \A j \in (i + 1)..Len(table_type_info) : table_type_info[j] # ty) - 1 ]

\* priority_map.get(t.table_type_id, float('inf'))
Priority(t, pm) ==
    IF tables[t].table_type_id \in DOMAIN pm THEN pm[tables[t].table_type_id] ELSE Infinity

\* key=lambda t: (priority, t.id), compared as Python compares tuples
KeyLess(a, b, pm) ==
    \/ Priority(a, pm) < Priority(b, pm)
    \/ Priority(a, pm) = Priority(b, pm) /\ a < b

RECURSIVE SortTables(_, _)
SortTables(S, pm) ==
    IF S = {} THEN << >>
    ELSE LET first == CHOOSE a \in S : \A b \in S \ {a} : KeyLess(a, b, pm)
         IN  << first >> \o SortTables(S \ {first}, pm)

\* table.capacity as the greedy loop reads it
TableCapacityAsTypeMaximum(t) == tableTypes[tables[t].table_type_id].maximum_capacity

TableCapacity(t) == tables[t].capacity

\* the loop guard: stop taking tables once the party is seated
LoopBreaks(remaining_guests) == remaining_guests <= 0

RECURSIVE GreedyLoop(_, _, _, _)
GreedyLoop(sorted, i, selected_tables, remaining_guests) ==
    IF i > Len(sorted) \/ LoopBreaks(remaining_guests)
    THEN [selected_tables |-> selected_tables, remaining_guests |-> remaining_guests]
    ELSE GreedyLoop(sorted, i + 1, Append(selected_tables, sorted[i]),
                    remaining_guests - TableCapacity(sorted[i]))

\* if remaining_guests > 0: "Not enough tables available."
NotEnoughTables(remaining_guests) == remaining_guests > 0

\* verify_table_type_in_restaurant: every listed type is a live type of the restaurant
TableTypesVerified(restaurant_id, table_type_ids) ==
    LET found_ids == { ty \in TableTypeIds :
                         /\ ty \in SeqToSet(table_type_ids)
                         /\ tableTypes[ty].restaurant_id = restaurant_id
                         /\ ~tableTypes[ty].is_deleted }
    IN  Cardinality(found_ids) = Cardinality(SeqToSet(table_type_ids))

\* create_booking up to its commit: the answer of an early return, or status 0
\* and the selected tables
CreateBookingQueries(booking_data, restaurant_id, source, in_future) ==
    LET fail(status, message) ==
            [status |-> status, message |-> message, selected_tables |-> << >>]
        hours == get_opening_closing_time(booking_data.date, RestaurantHours(restaurant_id))
        time_slots == generate_time_slots(hours.opening_time, hours.closing_time,
                                          ReservationDuration(restaurant_id))
        sorted == SortTables(
                    available_tables(restaurant_id, booking_data.date, booking_data.start_time),
                    priority_map(booking_data.table_type_info))
        greedy == GreedyLoop(sorted, 1, << >>, booking_data.guest_count)
    IN  IF restaurant_id \notin RestaurantIds \/ RestaurantDeleted(restaurant_id)
        THEN fail(404, "Restaurant not found")
        ELSE IF source = "online" /\ ~in_future
        THEN fail(400, "Booking time must be in the future.")
        ELSE IF ~TableTypesVerified(restaurant_id, booking_data.table_type_info)
        \* abort(404) raised inside the try block is caught by `except Exception`
        THEN fail(500, "An internal error occurred while creating the booking.")
        ELSE IF ~HasPolicy(restaurant_id) \/ RestaurantHours(restaurant_id) = {}
        THEN fail(404, "Restaurant policy or hours missing")
        ELSE IF hours.is_none
        THEN fail(400, "Restaurant is closed on that date")
        ELSE IF booking_data.start_time \notin SeqToSet(time_slots)
        THEN fail(400, "Invalid start time")
        ELSE IF NotEnoughTables(greedy.remaining_guests)
        THEN fail(400, "Not enough tables available.")
        ELSE [status |-> 0, message |-> "selected", selected_tables |-> greedy.selected_tables]

\* generate_checkin_code draws 6 random characters; the model draws from a small pool
CheckinCodes == {"AAAAAA", "BBBBBB"}

StartTimes == { <<10, 0>>, <<11, 0>>, <<10, 30>> }
PreferenceLists == { << >>, <<2>>, <<2, 1, 2>>, <<3>> }
Sources == {"online", "walkin"}

\* Inputs of the allocation specification: one customer of restaurant 1, the
\* staff of restaurant 2, every start time and party size, one check-in code
AllocCallers == {1, 4}
AllocCodes == {"AAAAAA"}

\* rows written by the commit: the booking and one booking_table row per selected table
NewBookingRow(r, checkin_code) ==
    [restaurant_id |-> r.restaurant_id, date |-> r.date, start_time |-> r.start_time,
     guest_count |-> r.guest_count, user_id |-> r.user_id, source |-> r.source,
     checkin_code |-> checkin_code, status |-> "pending"]

NewBookingTableRows(booking_id, selected_tables) ==
    { [booking_id |-> booking_id, table_id |-> t] : t \in SeqToSet(selected_tables) }

\* db.session.rollback(): nothing of the failed session reaches the tables
RolledBackBookings(rows, pending_rows) == rows

RollbackKeepsFlushedRows(rows, pending_rows) == rows \cup pending_rows

RolledBackBookingTables(rows, pending_rows) == rows

InFlight == Cardinality({ q \in Procs : pc[q] = "commit" })

\* create_booking from its entry to the point where it is about to commit
CreateBookingRead(p, restaurant_id, booking_data, source, user_id, in_future) ==
    /\ pc[p] = "idle"
    /\ LET r == CreateBookingQueries(booking_data, restaurant_id, source, in_future)
       IN  IF r.status # 0
           THEN /\ resp' = Response("create_booking", r.status, r.message)
                /\ UNCHANGED << pc, req >>
           ELSE /\ Len(bookings) + InFlight < MaxBookings
                /\ pc' = [pc EXCEPT ![p] = "commit"]
                /\ req' = [req EXCEPT ![p] =
                            [restaurant_id |-> restaurant_id, date |-> booking_data.date,
                             start_time |-> booking_data.start_time,
                             guest_count |-> booking_data.guest_count,
                             source |-> source, user_id |-> user_id,
                             selected_tables |-> r.selected_tables]]
                /\ resp' = NoResponse
    /\ UNCHANGED dbVars

\* db.session.add(new_booking); db.session.commit()
CreateBookingCommit(p, checkin_code) ==
    /\ pc[p] = "commit"
    /\ bookings' = Append(bookings, NewBookingRow(req[p], checkin_code))
    /\ bookingTables' = bookingTables \cup
                        NewBookingTableRows(Len(bookings) + 1, req[p].selected_tables)
    /\ pc' = [pc EXCEPT ![p] = "idle"]
    /\ req' = [req EXCEPT ![p] = NoRequest]
    /\ resp' = Response("create_booking", 201, "Booking created successfully.")
    /\ UNCHANGED << tableTypes, tables >>

\* the commit raises: except Exception -> rollback -> abort(500)
CreateBookingCommitError(p) ==
    /\ pc[p] = "commit"
    /\ bookings' = RolledBackBookings(bookings, << NewBookingRow(req[p], "AAAAAA") >>)
    /\ bookingTables' = RolledBackBookingTables(bookingTables,
                            NewBookingTableRows(Len(bookings) + 1, req[p].selected_tables))
    /\ pc' = [pc EXCEPT ![p] = "idle"]
    /\ req' = [req EXCEPT ![p] = NoRequest]
    /\ resp' = Response("create_booking", 500,
                        "An internal error occurred while creating the booking.")
    /\ UNCHANGED << tableTypes, tables >>

\* the online endpoint passes the caller as user_id, the walk-in endpoint passes none
CreateBooking(p, callers, start_times, guest_counts) ==
    \E caller \in callers, source \in Sources, date \in Dates, start_time \in start_times,
       guest_count \in guest_counts, table_type_info \in PreferenceLists,
       in_future \in BOOLEAN :
        /\ UserRole(caller) = (IF source = "online" THEN "user" ELSE "staff")
        /\ source = "walkin" => in_future
        /\ CreateBookingRead(p, UserRestaurant(caller),
                [date |-> date, start_time |-> start_time, guest_count |-> guest_count,
                 table_type_info |-> table_type_info],
                source, IF source = "online" THEN caller ELSE None, in_future)

(***************************************************************************)
(* Booking lifecycle: cancel_booking, the two cancel endpoints, check-in   *)
(***************************************************************************)
\* an absent or empty checkin_code query argument
NoCode == ""

Outcome(status, message, booking_id, new_status) ==
    [status |-> status, message |-> message, booking_id |-> booking_id,
     new_status |-> new_status]

\* no row is written
Refused(status, message) == Outcome(status, message, None, "unchanged")

\* the status test that guards a cancellation
CancellableStatus(status) == status = "pending"

\* BookingResources.cancel_booking
cancel_booking(booking_id, restaurant_id, user_id, checkin_code) ==
    IF restaurant_id \notin RestaurantIds \/ RestaurantDeleted(restaurant_id)
    THEN Refused(404, "Restaurant not found")
    ELSE IF booking_id \notin BookingIds
            \/ bookings[booking_id].restaurant_id # restaurant_id
    THEN Refused(404, "Booking not found.")
    ELSE IF bookings[booking_id].source = "online"
            /\ (user_id = None \/ bookings[booking_id].user_id # user_id)
    THEN Refused(403, "Unauthorized to cancel this booking.")
    ELSE IF bookings[booking_id].source = "walkin"
            /\ (checkin_code = NoCode \/ bookings[booking_id].checkin_code # checkin_code)
    THEN Refused(400, "Invalid or missing check-in code for walk-in booking.")
    ELSE IF ~CancellableStatus(bookings[booking_id].status)
    THEN Refused(400, "Booking cannot be canceled as it's not in pending status.")
    ELSE Outcome(200, "Booking canceled successfully.", booking_id, "cancelled")

\* PATCH /api/users/online-bookings/<booking_id>/cancel
OnlineCancelPatch(caller, booking_id) ==
    IF UserRole(caller) # "user"
    THEN Refused(403, "Access forbidden: user role required.")
    ELSE cancel_booking(booking_id, UserRestaurant(caller), caller, NoCode)

\* PATCH /api/users/walkin-bookings/<booking_id>/cancel: the call passes the
\* undefined name `null`, so evaluating its arguments raises NameError and
\* cancel_booking is never entered
WalkinCancelPatch(caller, booking_id, checkin_code) ==
    IF UserRole(caller) # "staff"
    THEN Refused(403, "Access forbidden: staff role required.")
    ELSE IF checkin_code = NoCode
    THEN Refused(400, "Missing check_in code")
    ELSE Refused(500, "NameError: name 'null' is not defined")

\* the rows that filter_by(checkin_code=code).first() may return: the query
\* has no ORDER BY
FirstByCode(code) == { b \in BookingIds : bookings[b].checkin_code = code }

\* the status test that guards a check-in
CheckInAllowed(status) == status = "pending"

\* POST /api/users/bookings/checkin; every abort() is raised inside the try
\* block and leaves as a 500
CheckInOutcomes(caller, code) ==
    LET internal == Refused(500, "An internal error occurred during check-in.")
    IN  IF UserRole(caller) # "staff" \/ code = NoCode \/ FirstByCode(code) = {}
        THEN { internal }
        ELSE { IF ~CheckInAllowed(bookings[b].status)
               THEN Refused(400, "Booking already checked in or canceled.")
               ELSE Outcome(200, "Check-in successful.", b, "active")
               : b \in FirstByCode(code) }

\* the status assignment and commit of a lifecycle handler
ApplyOutcome(op, o) ==
    /\ bookings' = IF o.new_status = "unchanged" THEN bookings
                   ELSE [bookings EXCEPT ![o.booking_id].status = o.new_status]
    /\ resp' = Response(op, o.status, o.message)
    /\ UNCHANGED << tableTypes, tables, bookingTables, pc, req >>

OnlineCancel(caller, booking_id) ==
    ApplyOutcome("cancel", OnlineCancelPatch(caller, booking_id))

WalkinCancel(caller, booking_id, checkin_code) ==
    ApplyOutcome("cancel", WalkinCancelPatch(caller, booking_id, checkin_code))

CheckIn(caller, code) ==
    \E o \in CheckInOutcomes(caller, code) : ApplyOutcome("checkin", o)

(***************************************************************************)
(* Table inventory: PATCH and DELETE of a table instance                   *)
(***************************************************************************)
\* the row both handlers load: a live table of a live type of the restaurant
FindTable(restaurant_id, table_id) ==
    /\ table_id \in TableIds
    /\ ~tables[table_id].is_deleted
    /\ tableTypes[tables[table_id].table_type_id].restaurant_id = restaurant_id
    /\ ~tableTypes[tables[table_id].table_type_id].is_deleted

\* DELETE: refused only while a booking with status "active" uses the table
active_booking_exists(table_id) ==
    \E r \in bookingTables :
        r.table_id = table_id /\ bookings[r.booking_id].status = "active"

TableDelete(restaurant_id, table_id) ==
    /\ IF ~FindTable(restaurant_id, table_id)
       THEN /\ resp' = Response("table_delete", 400, "An unexpected error occurred: 404 Not Found")
            /\ UNCHANGED tables
       ELSE IF active_booking_exists(table_id)
       THEN /\ resp' = Response("table_delete", 400, "An unexpected error occurred: 400 Bad Request")
            /\ UNCHANGED tables
       ELSE /\ tables' = [tables EXCEPT ![table_id].is_deleted = TRUE]
            /\ resp' = Response("table_delete", 204, "Table deleted successfully")
    /\ UNCHANGED << tableTypes, bookings, bookingTables, pc, req >>

\* PATCH with update_data = {"is_available": value}
TablePatchAvailable(restaurant_id, table_id, value) ==
    /\ IF ~FindTable(restaurant_id, table_id)
       THEN /\ resp' = Response("table_patch", 400, "An unexpected error occurred: 404 Not Found")
            /\ UNCHANGED tables
       ELSE /\ tables' = [tables EXCEPT ![table_id].is_available = value]
            /\ resp' = Response("table_patch", 200, "Table updated successfully")
    /\ UNCHANGED << tableTypes, bookings, bookingTables, pc, req >>

\* verify_admin_ownership: the restaurant exists, is not deleted and is the admin's
AdminOwns(admin, restaurant_id) ==
    /\ restaurant_id \in RestaurantIds
    /\ ~RestaurantDeleted(restaurant_id)
    /\ RestaurantAdmin(restaurant_id) = admin

\* a live table type of the restaurant (the lookup of POST, verify_table_type_in_restaurant)
LiveTypeOfRestaurant(restaurant_id, table_type_id) ==
    /\ table_type_id \in TableTypeIds
    /\ tableTypes[table_type_id].restaurant_id = restaurant_id
    /\ ~tableTypes[table_type_id].is_deleted

\* a duplicate check that never finds a row
NumberNeverTaken(rows, restaurant_id, table_number, except_id) == FALSE

\* the duplicate query: a non-deleted instance of the restaurant, other than
\* except_id, carries the table_number
NumberTaken(rows, restaurant_id, table_number, except_id) ==
    \E t \in DOMAIN rows :
        /\ t # except_id
        /\ ~rows[t].is_deleted
        /\ rows[t].table_number = table_number
        /\ tableTypes[rows[t].table_type_id].restaurant_id = restaurant_id

\* capacity > maximum_capacity or capacity < minimum_capacity
CapacityOutOfRange(capacity, table_type_id) ==
    \/ capacity > tableTypes[table_type_id].maximum_capacity
    \/ capacity < tableTypes[table_type_id].minimum_capacity

\* TableInstance(**data): is_available is filled by the schema, is_deleted by the column default
NewTableRow(data) ==
    [table_type_id |-> data.table_type_id, table_number |-> data.table_number,
     capacity |-> data.capacity, is_available |-> TRUE, is_deleted |-> FALSE]

\* the loop of POST over tables_data: rows holds the session's view (each
\* query flushes the instances added so far), failed counts the rejected entries
RECURSIVE PostLoop(_, _, _, _, _)
PostLoop(rows, failed, tables_data, i, restaurant_id) ==
    IF i > Len(tables_data)
    THEN [rows |-> rows, failed |-> failed]
    ELSE LET data == tables_data[i]
         IN  IF \/ ~LiveTypeOfRestaurant(restaurant_id, data.table_type_id)
                \/ CapacityOutOfRange(data.capacity, data.table_type_id)
                \/ NumberTaken(rows, restaurant_id, data.table_number, None)
             THEN PostLoop(rows, failed + 1, tables_data, i + 1, restaurant_id)
             ELSE PostLoop(rows @@ ((Cardinality(DOMAIN rows) + 1) :> NewTableRow(data)),
                           failed, tables_data, i + 1, restaurant_id)

\* TableListResource.post
TableListPost(admin, restaurant_id, tables_data) ==
    /\ IF ~AdminOwns(admin, restaurant_id)
       THEN /\ resp' = Response("table_post", 403,
                                "You do not have permission to modify this restaurant.")
            /\ UNCHANGED tables
       ELSE LET r == PostLoop(tables, 0, tables_data, 1, restaurant_id)
            IN  /\ Cardinality(DOMAIN r.rows) <= MaxTables
                /\ tables' = r.rows
                /\ resp' = IF r.failed > 0
                           THEN Response("table_post", 207,
                                         "Some tables couldn't be created due to errors.")
                           ELSE Response("table_post", 201, "All tables created successfully.")
    /\ UNCHANGED << tableTypes, bookings, bookingTables, pc, req >>

\* for key, value in update_data.items(): setattr(table, key, value)
UpdatedRow(row, update_data) ==
    [ key \in DOMAIN row |-> IF key \in DOMAIN update_data THEN update_data[key] ELSE row[key] ]

\* TableResource.patch; an abort() raised inside the try block leaves as a 400
TablePatch(admin, restaurant_id, table_id, update_data) ==
    /\ IF ~AdminOwns(admin, restaurant_id)
       THEN /\ resp' = Response("table_patch", 403,
                                "You do not have permission to modify this restaurant.")
            /\ UNCHANGED tables
       ELSE IF ~FindTable(restaurant_id, table_id)
       THEN /\ resp' = Response("table_patch", 400, "An unexpected error occurred: 404 Not Found")
            /\ UNCHANGED tables
       ELSE IF /\ "table_number" \in DOMAIN update_data
               /\ NumberTaken(tables, restaurant_id, update_data.table_number, table_id)
       THEN /\ resp' = Response("table_patch", 400,
                                "A table with that number already exists in this restaurant.")
            /\ UNCHANGED tables
       ELSE IF /\ "table_type_id" \in DOMAIN update_data
               /\ ~LiveTypeOfRestaurant(restaurant_id, update_data.table_type_id)
       THEN /\ resp' = Response("table_patch", 400, "An unexpected error occurred: 404 Not Found")
            /\ UNCHANGED tables
       ELSE /\ tables' = [tables EXCEPT ![table_id] = UpdatedRow(tables[table_id], update_data)]
            /\ resp' = Response("table_patch", 200, "Table updated successfully")
    /\ UNCHANGED << tableTypes, bookings, bookingTables, pc, req >>

(***************************************************************************)
(* Operating calendar: PATCH of the policy, PUT of the operating hours     *)
(***************************************************************************)
\* RestaurantPolicyResource.patch with policy_data = {"reservation_duration": d};
\* the lookup joins restaurant and policy and does not look at is_deleted
RestaurantPolicyPatch(admin, restaurant_id, reservation_duration) ==
    /\ IF restaurant_id \notin RestaurantIds \/ ~HasPolicy(restaurant_id)
       THEN /\ resp' = Response("policy_patch", 404, "Restaurant or policy not found.")
            /\ UNCHANGED policies
       ELSE IF RestaurantAdmin(restaurant_id) # admin
       THEN /\ resp' = Response("policy_patch", 403,
                        "You do not have permission to modify this restaurant policy.")
            /\ UNCHANGED policies
       ELSE /\ policies' = [policies EXCEPT
                                ![restaurant_id].reservation_duration = reservation_duration]
            /\ resp' = Response("policy_patch", 200, "Restaurant policy partially updated.")
    /\ UNCHANGED << dbVars, pc, req, operatingHours, schedulerVars, sideVars >>

\* the rows after one entry of hours_data: the row of that day is updated,
\* or a new row is added when the restaurant has none for the day
PutHoursEntry(rows, restaurant_id, entry) ==
    { h \in rows : ~(h.restaurant_id = restaurant_id /\ h.day_of_week = entry.day_of_week) }
    \cup { [restaurant_id |-> restaurant_id, day_of_week |-> entry.day_of_week,
            opening_time |-> entry.opening_time, closing_time |-> entry.closing_time] }

\* RestaurantOperatingHoursView.put with hours_data = [entry]
RestaurantOperatingHoursPut(admin, restaurant_id, entry) ==
    /\ IF \/ restaurant_id \notin RestaurantIds
          \/ RestaurantDeleted(restaurant_id)
          \/ RestaurantAdmin(restaurant_id) # admin
       THEN /\ resp' = Response("hours_put", 404, "Restaurant not found.")
            /\ UNCHANGED operatingHours
       ELSE /\ operatingHours' = PutHoursEntry(operatingHours, restaurant_id, entry)
            /\ resp' = Response("hours_put", 200, "Operating hours updated successfully.")
    /\ UNCHANGED << dbVars, pc, req, policies, schedulerVars, sideVars >>

(***************************************************************************)
(* Availability Calculator: AvailableTablesForDate.get                     *)
(***************************************************************************)
\* the booking statuses the booked_data query counts
CountedStatuses == {"active"}

\* booked_data[table_type_id][start_time]: booking_table rows joined to the
\* restaurant's bookings of the date, grouped by slot and table type
booked_table_count(restaurant_id, date, table_type_id, start_time) ==
    Cardinality({ r \in bookingTables :
        /\ bookings[r.booking_id].date = date
        /\ bookings[r.booking_id].restaurant_id = restaurant_id
        /\ bookings[r.booking_id].status \in CountedStatuses
        /\ bookings[r.booking_id].start_time = start_time
        /\ tables[r.table_id].table_type_id = table_type_id })

\* count(TableInstance.id) of the outer join: every instance row of the type
total_table_count(table_type_id) ==
    Cardinality({ t \in TableIds : tables[t].table_type_id = table_type_id })

\* the difference without its floor of zero
Unclamped(a, b) == b

Max(a, b) == IF a >= b THEN a ELSE b

\* a calculator that never takes the holiday branch
NeverOnHoliday(hours) == FALSE

\* "if not opening_time or not closing_time": the weekday has no hours row
OnHoliday(hours) == hours.is_none

\* the table types the result lists
ListedTableTypes(restaurant_id) ==
    { ty \in TableTypeIds : tableTypes[ty].restaurant_id = restaurant_id }

\* the answer: status, the slots, and available_count per listed type and slot
AvailableTablesForDate(restaurant_id, date) ==
    LET hours == get_opening_closing_time(date, RestaurantHours(restaurant_id))
        time_slots == generate_time_slots(hours.opening_time, hours.closing_time,
                                          ReservationDuration(restaurant_id))
    IN  IF restaurant_id \notin RestaurantIds \/ RestaurantDeleted(restaurant_id)
           \/ ~HasPolicy(restaurant_id) \/ RestaurantHours(restaurant_id) = {}
        THEN [status |-> 404, message |-> "not found", slots |-> << >>, data |-> << >>]
        ELSE IF OnHoliday(hours)
        THEN [status |-> 200, message |-> "The restaurant is on holiday on that date",
              slots |-> << >>, data |-> << >>]
        ELSE [status |-> 200, message |-> "availability data fetched successfully",
              slots |-> time_slots,
              data |-> [ ty \in ListedTableTypes(restaurant_id) |->
                          [ i \in 1..Len(time_slots) |->
                              Max(0, total_table_count(ty)
                                     - booked_table_count(restaurant_id, date, ty,
                                                          time_slots[i])) ] ]]

(***************************************************************************)
(* Earlier generation of the booking endpoints (src/controllers, served by *)
(* src/app.py): a booking is created active, a scheduler job completes it  *)
(* at the end of its slot, and the customer may cancel it                  *)
(***************************************************************************)
\* policy.free_cancellation_window, minutes (the column default)
FreeCancellationWindow(r) == 120

\* the clock advances in steps of these many minutes, MaxTicks times at most
TickSteps == {120}

\* datetime.combine(date, strptime(start_time, "%H:%M").time()), in minutes
BookingDatetime(date, start_time) == date * 1440 + start_time[1] * 60 + start_time[2]

\* table ids held by the active bookings of the restaurant, date and start time
already_booked_table_ids(restaurant_id, date, start_time) ==
    { r.table_id : r \in
        { x \in bookingTables :
            /\ bookings[x.booking_id].restaurant_id = restaurant_id
            /\ bookings[x.booking_id].date = date
            /\ bookings[x.booking_id].start_time = start_time
            /\ bookings[x.booking_id].status = "active" } }

\* the instances one entry of table_type_info may draw from
LegacyAvailableTables(type_id, booked) ==
    { t \in TableIds : tables[t].table_type_id = type_id /\ t \notin booked }

\* len(table_types) != len(table_type_info): the types found in the restaurant
LegacyTableTypesFound(restaurant_id, table_type_info) ==
    { ty \in TableTypeIds :
        /\ tableTypes[ty].restaurant_id = restaurant_id
        /\ \E i \in 1..Len(table_type_info) : table_type_info[i].table_type_id = ty }

\* every way the queries with LIMIT count (and no ORDER BY) can pick the tables
LegacySelections(table_type_info, booked) ==
    { f \in [1..Len(table_type_info) -> SUBSET TableIds] :
        \A i \in 1..Len(table_type_info) :
            /\ f[i] \subseteq LegacyAvailableTables(table_type_info[i].table_type_id, booked)
            /\ Cardinality(f[i]) = table_type_info[i].count }

\* the first entry, if any, that finds fewer tables than it asks for
LegacyShortEntries(table_type_info, booked) ==
    { i \in 1..Len(table_type_info) :
        Cardinality(LegacyAvailableTables(table_type_info[i].table_type_id, booked))
            < table_type_info[i].count }

\* the Booking row of this generation: status defaults to "active"; it has
\* no source and no check-in code
LegacyBookingRow(user_id, restaurant_id, date, start_time, guest_count) ==
    [restaurant_id |-> restaurant_id, date |-> date, start_time |-> start_time,
     guest_count |-> guest_count, user_id |-> user_id, source |-> "online",
     checkin_code |-> NoCode, status |-> "active"]

InFlightOf(kind) == { x \in inflight : x.kind = kind }

\* CreateBooking.post up to and including its commit; add_job follows
LegacyCreateBooking(user_id, restaurant_id, date, start_time, guest_count, table_type_info) ==
    LET booked == already_booked_table_ids(restaurant_id, date, start_time)
        refuse(status, message) ==
            /\ resp' = Response("legacy_create", status, message)
            /\ UNCHANGED << bookings, bookingTables, inflight >>
    IN  /\ IF BookingDatetime(date, start_time) < now
           THEN refuse(400, "Booking time must be in the future.")
           ELSE IF restaurant_id \notin RestaurantIds \/ RestaurantDeleted(restaurant_id)
           THEN refuse(404, "Restaurant not found")
           ELSE IF ~HasPolicy(restaurant_id)
           THEN refuse(404, "Restaurant or Restaurant policy not found.")
           ELSE IF Cardinality(LegacyTableTypesFound(restaurant_id, table_type_info))
                    # Len(table_type_info)
           THEN refuse(400, "One or more table types are invalid or unavailable.")
           ELSE IF LegacyShortEntries(table_type_info, booked) # {}
           THEN refuse(400, "Not enough available tables")
           ELSE /\ Len(bookings) < MaxBookings
                /\ \E f \in LegacySelections(table_type_info, booked) :
                     bookingTables' = bookingTables \cup
                        { [booking_id |-> Len(bookings) + 1, table_id |-> t] :
                            t \in UNION { f[i] : i \in 1..Len(table_type_info) } }
                /\ bookings' = Append(bookings,
                        LegacyBookingRow(user_id, restaurant_id, date, start_time, guest_count))
                /\ inflight' = inflight \cup
                        { [kind |-> "add_job", booking_id |-> Len(bookings) + 1,
                           run_date |-> BookingDatetime(date, start_time)
                                        + ReservationDuration(restaurant_id)] }
                /\ resp' = NoResponse
        /\ UNCHANGED << tableTypes, tables, pc, req, calendarVars, now, jobs, sideVars >>

\* scheduler.add_job(id = complete_booking_<id>, run_date, replace_existing = True)
LegacyAddJob(x) ==
    /\ x \in InFlightOf("add_job")
    /\ jobs' = { j \in jobs : j.booking_id # x.booking_id }
               \cup { [booking_id |-> x.booking_id, run_date |-> x.run_date] }
    /\ inflight' = inflight \ {x}
    /\ resp' = Response("legacy_create", 201, "Booking created successfully")
    /\ UNCHANGED << dbVars, pc, req, calendarVars, now, sideVars >>

\* a cancel that releases the tables by deleting the booking's rows
ReleaseBookedTables(rows, booking_id) == { r \in rows : r.booking_id # booking_id }

\* the cancel keeps the booking_table rows (the release loop is commented out)
CancelledBookingTables(rows, booking_id) == rows

\* CancelBooking.patch from its entry to the status assignment before the commit
LegacyCancelRead(user_id, booking_id) ==
    LET answer(status, message) ==
            /\ resp' = Response("legacy_cancel", status, message)
            /\ UNCHANGED inflight
    IN  /\ IF booking_id \notin BookingIds
           THEN answer(404, "Booking not found.")
           ELSE IF bookings[booking_id].user_id # user_id
           THEN answer(403, "Unauthorized to cancel this booking.")
           ELSE IF bookings[booking_id].status # "active"
           THEN answer(400, "Booking cannot be canceled as it's not active.")
           ELSE IF RestaurantDeleted(bookings[booking_id].restaurant_id)
           THEN answer(404, "Restaurant not found")
           ELSE IF ~HasPolicy(bookings[booking_id].restaurant_id)
           THEN answer(404, "Restaurant or Restaurant policy not found.")
           ELSE IF now >= BookingDatetime(bookings[booking_id].date,
                                          bookings[booking_id].start_time)
                          - FreeCancellationWindow(bookings[booking_id].restaurant_id)
           THEN answer(200, "Booking is canceled you will be charged")
           ELSE /\ inflight' = inflight \cup
                                 { [kind |-> "cancel_commit", booking_id |-> booking_id] }
                /\ resp' = NoResponse
        /\ UNCHANGED << dbVars, pc, req, calendarVars, now, jobs, sideVars >>

\* db.session.commit() of the cancel, then get_job / remove_job
LegacyCancelCommit(x) ==
    /\ x \in InFlightOf("cancel_commit")
    /\ bookings' = [bookings EXCEPT ![x.booking_id].status = "cancelled"]
    /\ bookingTables' = CancelledBookingTables(bookingTables, x.booking_id)
    /\ jobs' = { j \in jobs : j.booking_id # x.booking_id }
    /\ inflight' = inflight \ {x}
    /\ resp' = Response("legacy_cancel", 200, "Booking canceled successfully.")
    /\ UNCHANGED << tableTypes, tables, pc, req, calendarVars, now, sideVars >>

\* a status that lets the job write
AnyStatus(status) == TRUE

\* mark_booking_completed: "if booking and booking.status == 'active'"
CompletableStatus(status) == status = "active"

\* one whole run of mark_booking_completed on the booking rows
mark_booking_completed(rows, booking_id) ==
    IF booking_id \in 1..Len(rows) /\ CompletableStatus(rows[booking_id].status)
    THEN [rows EXCEPT ![booking_id].status = "completed"]
    ELSE rows

\* the scheduler fires the date job at its run_date and drops it from the
\* store; mark_booking_completed loads the booking and tests its status
JobRead(j) ==
    /\ j \in jobs
    /\ j.run_date <= now
    /\ jobs' = jobs \ {j}
    /\ inflight' = IF mark_booking_completed(bookings, j.booking_id) # bookings
                   THEN inflight \cup { [kind |-> "job_write", booking_id |-> j.booking_id] }
                   ELSE inflight
    /\ UNCHANGED << dbVars, pc, req, resp, calendarVars, now, sideVars >>

\* booking.status = "completed"; db.session.commit()
JobWrite(x) ==
    /\ x \in InFlightOf("job_write")
    /\ bookings' = [bookings EXCEPT ![x.booking_id].status = "completed"]
    /\ inflight' = inflight \ {x}
    /\ UNCHANGED << tableTypes, tables, bookingTables, pc, req, resp, calendarVars, now, jobs, sideVars >>

\* time passes
Tick(minutes) ==
    /\ now + minutes <= StartOfDay + MaxTicks * minutes
    /\ now' = now + minutes
    /\ UNCHANGED << dbVars, pc, req, resp, calendarVars, jobs, inflight, sideVars >>

\* CancelBooking.patch of userBooking.py, a module whose blueprint app.py does
\* not register: written for a policy with cancellation_threshold, a column
\* the RestaurantPolicy model does not have, so a request that passes the
\* checks ends in AttributeError before the status is touched
UserBookingCancel(user_id, booking_id) ==
    /\ resp' = IF booking_id \notin BookingIds
               THEN Response("userbooking_cancel", 404, "Booking not found.")
               ELSE IF bookings[booking_id].user_id # user_id
               THEN Response("userbooking_cancel", 403, "Unauthorized to cancel this booking.")
               ELSE IF bookings[booking_id].status # "active"
               THEN Response("userbooking_cancel", 400,
                             "Booking cannot be canceled as it's not active.")
               ELSE IF ~HasPolicy(bookings[booking_id].restaurant_id)
               THEN Response("userbooking_cancel", 404, "Restaurant policy not found.")
               ELSE Response("userbooking_cancel", 500, "AttributeError")
    /\ UNCHANGED << dbVars, pc, req, calendarVars, schedulerVars, sideVars >>

(***************************************************************************)
(* Occupancy rollups: the dashboards of src/controllers/adminDashboard.py, *)
(* the daily rollup of src/services/helper.py and the table utilization    *)
(* of src/app/controllers/adminDashboard.py                                *)
(***************************************************************************)
Min(a, b) == IF a <= b THEN a ELSE b

\* get_slots_per_working_day: weekday -> slot count, for the hours rows whose
\* closing time is after their opening time
get_slots_per_working_day(restaurant_id) ==
    LET valid == { h \in RestaurantHours(restaurant_id) : h.closing_time > h.opening_time }
    IN  [ wd \in { h.day_of_week : h \in valid } |->
            LET entry == CHOOSE h \in valid : h.day_of_week = wd
            IN  (entry.closing_time - entry.opening_time) \div ReservationDuration(restaurant_id) ]

\* get_total_slots_in_range: the sum over the days start_date .. end_date
RECURSIVE get_total_slots_in_range(_, _, _)
get_total_slots_in_range(slots_per_day, start_date, end_date) ==
    IF start_date > end_date THEN 0
    ELSE (IF Weekday(start_date) \in DOMAIN slots_per_day
          THEN slots_per_day[Weekday(start_date)] ELSE 0)
         + get_total_slots_in_range(slots_per_day, start_date + 1, end_date)

\* count(TableInstance.id) joined to the restaurant's table types
InstanceCount(restaurant_id) ==
    Cardinality({ t \in TableIds : tableTypes[tables[t].table_type_id].restaurant_id = restaurant_id })

\* "... .scalar() or 1"
total_tables(restaurant_id) ==
    IF InstanceCount(restaurant_id) = 0 THEN 1 ELSE InstanceCount(restaurant_id)

\* count(BookingTable.id) over the active and completed bookings of the range
occupied_tables(restaurant_id, start_date, end_date) ==
    Cardinality({ r \in bookingTables :
        /\ bookings[r.booking_id].restaurant_id = restaurant_id
        /\ bookings[r.booking_id].date >= start_date
        /\ bookings[r.booking_id].date <= end_date
        /\ bookings[r.booking_id].status \in {"active", "completed"} })

\* round(n / d * 100, 2) in hundredths of a percent, ties to even
RoundedPercent(n, d) ==
    LET q == (n * 10000) \div d
        rem == (n * 10000) % d
    IN  IF 2 * rem > d \/ (2 * rem = d /\ q % 2 = 1) THEN q + 1 ELSE q

\* the outcome of a rate computation: a rate, or ZeroDivisionError
Rate(value) == [raised |-> FALSE, rate |-> value]
ZeroDivisionError == [raised |-> TRUE, rate |-> 0]

\* get_dashboard_data and fetch_metrics: "(occupied / (total_slot * total_tables)) * 100
\* ... if total_tables > 0"
occupancy_rate(occupied, total_slot, tables_count) ==
    IF tables_count > 0
    THEN IF total_slot * tables_count = 0
         THEN ZeroDivisionError
         ELSE Rate(RoundedPercent(occupied, total_slot * tables_count))
    ELSE Rate(0)

\* the occupancy of the restaurant over start_date .. end_date as both
\* dashboards compute it
DashboardOccupancy(restaurant_id, start_date, end_date) ==
    occupancy_rate(occupied_tables(restaurant_id, start_date, end_date),
                   get_total_slots_in_range(get_slots_per_working_day(restaurant_id),
                                            start_date, end_date),
                   total_tables(restaurant_id))

\* get_table_utilization of src/app: "(total_bookings / total_slots * 100) if total_slots > 0 else 0"
utilization_rate(total_bookings, total_slots) ==
    IF total_slots > 0 THEN Rate(RoundedPercent(total_bookings, total_slots)) ELSE Rate(0)

\* dailyStatsEntry: total_slots of the hours row, closing time capped at 23:59
DailyStatsTotalSlots(opening_time, closing_time, reservation_duration) ==
    ((Min(closing_time, 1439) + reservation_duration - 1) - Max(opening_time, 0))
        \div reservation_duration

RECURSIVE SumOfCapacities(_)
SumOfCapacities(S) ==
    IF S = {} THEN 0
    ELSE LET t == CHOOSE x \in S : TRUE IN tables[t].capacity + SumOfCapacities(S \ {t})

\* sum(TableInstance.capacity) over the available, non-deleted instances of
\* the restaurant's non-deleted table types, "or 0"
active_occupancy(restaurant_id) ==
    SumOfCapacities({ t \in TableIds :
        /\ tableTypes[tables[t].table_type_id].restaurant_id = restaurant_id
        /\ ~tableTypes[tables[t].table_type_id].is_deleted
        /\ tables[t].is_available
        /\ ~tables[t].is_deleted })

\* restaurant.operating_hours[weekday]: the row at list position weekday.
\* The relationship has no order_by, so any row may sit there; a list shorter
\* than weekday + 1 raises IndexError, an empty one gives None
HoursAtPosition(restaurant_id, weekday) ==
    IF Cardinality(RestaurantHours(restaurant_id)) > weekday
    THEN RestaurantHours(restaurant_id)
    ELSE {}

\* DailyStats.query.filter_by(restaurant_id, date).first()
existing_entry(restaurant_id, today) ==
    \E i \in 1..Len(dailyStats) :
        dailyStats[i].restaurant_id = restaurant_id /\ dailyStats[i].date = today

\* the DailyStats row dailyStatsEntry builds
NewDailyStats(restaurant_id, today, h) ==
    [restaurant_id |-> restaurant_id, date |-> today, total_reservations |-> 0,
     total_cancelled_reservations |-> 0, total_revenue |-> 0,
     maximum_occupancy |->
        DailyStatsTotalSlots(h.opening_time, h.closing_time, ReservationDuration(restaurant_id))
        * active_occupancy(restaurant_id),
     reserved_occupancy |-> 0]

\* dailyStatsEntry, called by create_daily_stats_for_all_restaurants for a
\* restaurant that is not deleted, from its entry to db.session.add: it
\* returns when the policy or the hours are missing or a row exists, and an
\* exception is caught and printed
DailyStatsRead(p, restaurant_id, today) ==
    /\ rollupRuns[p] = NoRun
    /\ ~RestaurantDeleted(restaurant_id)
    /\ IF \/ ~HasPolicy(restaurant_id)
          \/ HoursAtPosition(restaurant_id, Weekday(today)) = {}
          \/ existing_entry(restaurant_id, today)
       THEN UNCHANGED rollupRuns
       ELSE \E h \in HoursAtPosition(restaurant_id, Weekday(today)) :
              rollupRuns' = [rollupRuns EXCEPT ![p] = NewDailyStats(restaurant_id, today, h)]
    /\ UNCHANGED << dbVars, procVars, calendarVars, schedulerVars, dailyStats, stock,
                    orderItems, foodReq, slotRuns >>

\* db.session.commit() of the new entry
DailyStatsCommit(p) ==
    /\ rollupRuns[p] # NoRun
    /\ dailyStats' = Append(dailyStats, rollupRuns[p])
    /\ rollupRuns' = [rollupRuns EXCEPT ![p] = NoRun]
    /\ UNCHANGED << dbVars, procVars, calendarVars, schedulerVars, stock, orderItems, foodReq,
                    slotRuns >>

(***************************************************************************)
(* Food orders: create_or_update_food_order                                *)
(***************************************************************************)
\* food items offered in the period of every start time
AvailableFoodIds == {1, 2}

StockKey(entry) == << entry.food_item_id, entry.variant_id >>

\* reservation.food_order exists: it is created with the first items of the booking
OrderExists(booking_id) ==
    \E i \in 1..Len(orderItems) : orderItems[i].booking_id = booking_id

\* {(item.food_item_id, item.variant_id): item for item in order.items}: the
\* position of the order's row for the key (the later row wins a duplicate key)
existing_items(booking_id) ==
    LET rows == { i \in 1..Len(orderItems) :
                    orderItems[i].booking_id = booking_id /\ ~orderItems[i].deleted }
        keys == { << orderItems[i].food_item_id, orderItems[i].variant_id >> : i \in rows }
    IN  [ key \in keys |->
            CHOOSE i \in rows :
                /\ << orderItems[i].food_item_id, orderItems[i].variant_id >> = key
                /\ \A j \in rows :
                     << orderItems[j].food_item_id, orderItems[j].variant_id >> = key => j <= i ]

\* the UPDATE of a stock row the session changed: the value computed in the
\* session from the value it read
StockWritten(in_session, at_read, in_database) == in_session

\* the loop over item_entries on the session's objects: st is current_stock
\* per key, qty the quantity per existing row, added the new rows
RECURSIVE FoodLoop(_, _, _, _, _, _)
FoodLoop(item_entries, i, existing, st, qty, added) ==
    IF i > Len(item_entries)
    THEN [status |-> 200, st |-> st, qty |-> qty, added |-> added]
    ELSE LET entry == item_entries[i]
             key == StockKey(entry)
             fail(status) == [status |-> status, st |-> st, qty |-> qty, added |-> added]
         IN  IF entry.food_item_id \notin AvailableFoodIds THEN fail(400)
             ELSE IF key \notin DOMAIN st THEN fail(404)
             ELSE IF key \in DOMAIN existing
             THEN LET net_change == entry.quantity - qty[existing[key]]
                  IN  IF net_change > 0 /\ net_change > st[key] THEN fail(400)
                      ELSE FoodLoop(item_entries, i + 1, existing,
                                    [st EXCEPT ![key] = @ - net_change],
                                    [qty EXCEPT ![existing[key]] = entry.quantity], added)
             ELSE IF entry.quantity > st[key] THEN fail(400)
             ELSE FoodLoop(item_entries, i + 1, existing,
                           [st EXCEPT ![key] = @ - entry.quantity], qty,
                           Append(added, entry))

\* "Handle removals": the existing rows whose key the request does not list
RemovedRows(item_entries, existing) ==
    { existing[key] : key \in { k \in DOMAIN existing :
        \A i \in 1..Len(item_entries) : StockKey(item_entries[i]) # k } }

RECURSIVE RestoreStock(_, _)
RestoreStock(st, removed) ==
    IF removed = {} THEN st
    ELSE LET i == CHOOSE x \in removed : TRUE
             key == << orderItems[i].food_item_id, orderItems[i].variant_id >>
         IN  RestoreStock(IF key \in DOMAIN st
                          THEN [st EXCEPT ![key] = @ + orderItems[i].quantity] ELSE st,
                          removed \ {i})

\* create_or_update_food_order from its entry to the point before db.session.commit()
FoodOrderRead(p, staff, booking_id, item_entries) ==
    LET answer(status, message) ==
            /\ resp' = Response("food_order", status, message)
            /\ UNCHANGED foodReq
        existing == existing_items(booking_id)
        loop == FoodLoop(item_entries, 1, existing, stock,
                         [ i \in 1..Len(orderItems) |-> orderItems[i].quantity ], << >>)
        removed == RemovedRows(item_entries, existing)
    IN  /\ foodReq[p] = NoFoodRequest
        /\ IF UserRole(staff) # "staff"
           THEN answer(500, "Only staff can create or update food orders.")
           ELSE IF booking_id \notin BookingIds
           THEN answer(404, "Reservation not found")
           ELSE IF bookings[booking_id].restaurant_id # UserRestaurant(staff)
           THEN answer(500, "You can only manage orders for your own restaurant.")
           ELSE IF bookings[booking_id].status # "active"
           THEN answer(400, "Reservation is not active")
           ELSE IF loop.status # 200
           THEN answer(loop.status, "Item rejected")
           ELSE /\ Len(orderItems) + Len(loop.added) <= MaxOrderItems
                /\ \A key \in DOMAIN stock : RestoreStock(loop.st, removed)[key] <= MaxStock
                /\ foodReq' = [foodReq EXCEPT ![p] =
                        [booking_id |-> booking_id,
                         creates_order |-> ~OrderExists(booking_id),
                         read_stock |-> stock,
                         st |-> RestoreStock(loop.st, removed),
                         read_qty |-> [ i \in 1..Len(orderItems) |-> orderItems[i].quantity ],
                         qty |-> loop.qty,
                         added |-> loop.added,
                         removed |-> removed]]
                /\ resp' = NoResponse
        /\ UNCHANGED << dbVars, pc, req, calendarVars, schedulerVars, dailyStats, rollupRuns,
                        stock, orderItems, slotRuns >>

\* db.session.commit(): the order row (reservation_id is unique), the changed
\* stock rows, the changed, new and deleted order items
FoodOrderCommit(p) ==
    LET x == foodReq[p]
        new_rows == [ i \in 1..Len(x.added) |->
                        [booking_id |-> x.booking_id, food_item_id |-> x.added[i].food_item_id,
                         variant_id |-> x.added[i].variant_id,
                         quantity |-> x.added[i].quantity, deleted |-> FALSE] ]
    IN  /\ x # NoFoodRequest
        /\ IF x.creates_order /\ OrderExists(x.booking_id)
           THEN \* IntegrityError on reservation_id: except Exception -> rollback -> 500
                /\ resp' = Response("food_order", 500, "IntegrityError")
                /\ UNCHANGED << stock, orderItems >>
           ELSE IF \E i \in DOMAIN x.qty :
                    /\ orderItems[i].deleted
                    /\ (x.qty[i] # x.read_qty[i] \/ i \in x.removed)
           THEN \* StaleDataError, the row is gone: except Exception -> rollback -> 500
                /\ resp' = Response("food_order", 500, "StaleDataError")
                /\ UNCHANGED << stock, orderItems >>
           ELSE /\ stock' = [ key \in DOMAIN stock |->
                                IF x.st[key] # x.read_stock[key]
                                THEN StockWritten(x.st[key], x.read_stock[key], stock[key])
                                ELSE stock[key] ]
                /\ orderItems' =
                     [ i \in 1..Len(orderItems) |->
                        [orderItems[i] EXCEPT
                            !.quantity = IF i \in DOMAIN x.qty /\ x.qty[i] # x.read_qty[i]
                                         THEN x.qty[i] ELSE @,
                            !.deleted = @ \/ i \in x.removed] ] \o new_rows
                /\ resp' = Response("food_order", 200, "Order created/updated")
        /\ foodReq' = [foodReq EXCEPT ![p] = NoFoodRequest]
        /\ UNCHANGED << dbVars, pc, req, calendarVars, schedulerVars, dailyStats, rollupRuns,
                        slotRuns >>

(***************************************************************************)
(* Background slot enumerations: get_time_slots, schedule_daily_updates,   *)
(* TableAvailability.initialize_daily_availability                         *)
(***************************************************************************)
\* (datetime.combine(day, current) + timedelta(minutes=m)).time(): the date of
\* the sum is dropped, a time of day is left
TimeAfter(current, minutes) == (current + minutes) % 1440

\* while current < end_time: slots.append(current); current = TimeAfter(...).
\* The next value depends on current alone, so a value of current that comes
\* back is a loop that never leaves: returns is FALSE
RECURSIVE TimeLoop(_, _, _, _)
TimeLoop(current, end_time, interval_minutes, slots) ==
    IF ~(current < end_time) THEN [slots |-> slots, returns |-> TRUE]
    ELSE IF current \in SeqToSet(slots) THEN [slots |-> slots, returns |-> FALSE]
    ELSE TimeLoop(TimeAfter(current, interval_minutes), end_time, interval_minutes,
                  Append(slots, current))

get_time_slots(start_time, end_time, interval_minutes) ==
    TimeLoop(start_time, end_time, interval_minutes, << >>)

\* RestaurantOperatingHours.query.filter_by(restaurant_id, day_of_week).first()
HoursOfDay(restaurant_id, date) ==
    { h \in operatingHours : h.restaurant_id = restaurant_id /\ h.day_of_week = Weekday(date) }

SlotRun(task, date, table_ids, h, interval_minutes, loop) ==
    [task |-> task, date |-> date, table_ids |-> table_ids,
     opening_time |-> h.opening_time, closing_time |-> h.closing_time,
     interval_minutes |-> interval_minutes, slots |-> loop.slots, returns |-> loop.returns]

\* the restaurants schedule_daily_updates enumerates slots for
ScheduledRestaurants(tomorrow) ==
    { r \in RestaurantIds :
        ~RestaurantDeleted(r) /\ HoursOfDay(r, tomorrow) # {} /\ HasPolicy(r) }

ScheduledRun(r, tomorrow) ==
    LET h == CHOOSE x \in HoursOfDay(r, tomorrow) : TRUE
        table_ids == { t \in TableIds :
                         /\ tableTypes[tables[t].table_type_id].restaurant_id = r
                         /\ ~tables[t].is_deleted }
    IN  SlotRun("schedule_daily_updates", tomorrow, table_ids, h,
                policies[r].reservation_duration,
                get_time_slots(h.opening_time, h.closing_time, policies[r].reservation_duration))

\* schedule_daily_updates: the restaurants are taken in turn; a restaurant is
\* reached when get_time_slots has returned for those before it
ScheduleDailyUpdates(tomorrow) ==
    /\ slotRuns' =
         [ r \in RestaurantIds |->
            IF /\ r \in ScheduledRestaurants(tomorrow)
               /\ \A q \in ScheduledRestaurants(tomorrow) :
                    q < r => ScheduledRun(q, tomorrow).returns
            THEN ScheduledRun(r, tomorrow)
            ELSE slotRuns[r] ]
    /\ UNCHANGED << dbVars, procVars, calendarVars, schedulerVars, dailyStats, rollupRuns,
                    stock, orderItems, foodReq >>

\* TableAvailability.initialize_daily_availability(table_id, date)
InitializeDailyAvailability(table_id, date) ==
    LET r == tableTypes[tables[table_id].table_type_id].restaurant_id
        h == CHOOSE x \in HoursOfDay(r, date) : TRUE
        reservation_duration == policies[r].reservation_duration
    IN  /\ IF table_id \notin TableIds \/ tables[table_id].is_deleted
           THEN UNCHANGED slotRuns
           ELSE IF HoursOfDay(r, date) = {}
           THEN UNCHANGED slotRuns
           ELSE IF ~HasPolicy(r)
           THEN UNCHANGED slotRuns   \* policy is None: AttributeError
           ELSE slotRuns' = [slotRuns EXCEPT ![r] =
                    SlotRun("initialize_daily_availability", date, {table_id}, h,
                            reservation_duration,
                            TimeLoop(h.opening_time, h.closing_time, reservation_duration,
                                     << >>))]
        /\ UNCHANGED << dbVars, procVars, calendarVars, schedulerVars, dailyStats, rollupRuns,
                        stock, orderItems, foodReq >>

(***************************************************************************)
(* Specifications                                                          *)
(***************************************************************************)
\* callers and codes of the lifecycle requests in the allocation specification
AllocCancelCallers == {1}
AllocStaff == {3}

\* Concurrent allocation: two workers, every start time and party size
Next ==
    \/ \E p \in Procs : CreateBooking(p, AllocCallers, StartTimes, 1..MaxGuests)
         /\ UNCHANGED << calendarVars, schedulerVars, sideVars >>
    \/ \E p \in Procs, code \in AllocCodes : CreateBookingCommit(p, code)
         /\ UNCHANGED << calendarVars, schedulerVars, sideVars >>
    \/ \E p \in Procs : CreateBookingCommitError(p)
         /\ UNCHANGED << calendarVars, schedulerVars, sideVars >>
    \/ \E caller \in AllocCancelCallers, b \in 1..MaxBookings : OnlineCancel(caller, b)
         /\ UNCHANGED << calendarVars, schedulerVars, sideVars >>
    \/ \E caller \in AllocStaff, code \in AllocCodes : CheckIn(caller, code)
         /\ UNCHANGED << calendarVars, schedulerVars, sideVars >>

Spec == Init /\ [][Next]_vars

\* Lifecycle: both customers and the staff of restaurant 1 book one slot for
\* one guest; every cancel and check-in request, both check-in codes
LifecycleCallers == {1, 2, 3}
LifecycleStartTimes == { <<10, 0>> }
LifecycleGuestCounts == {1}

NextLifecycle ==
    \/ \E p \in Procs :
         CreateBooking(p, LifecycleCallers, LifecycleStartTimes, LifecycleGuestCounts)
         /\ UNCHANGED << calendarVars, schedulerVars, sideVars >>
    \/ \E p \in Procs, code \in CheckinCodes : CreateBookingCommit(p, code)
         /\ UNCHANGED << calendarVars, schedulerVars, sideVars >>
    \/ \E p \in Procs : CreateBookingCommitError(p)
         /\ UNCHANGED << calendarVars, schedulerVars, sideVars >>
    \/ \E caller \in UserIds, b \in 1..MaxBookings : OnlineCancel(caller, b)
         /\ UNCHANGED << calendarVars, schedulerVars, sideVars >>
    \/ \E caller \in UserIds, b \in 1..MaxBookings, code \in CheckinCodes \cup {NoCode} :
         WalkinCancel(caller, b, code)
         /\ UNCHANGED << calendarVars, schedulerVars, sideVars >>
    \/ \E caller \in UserIds, code \in CheckinCodes \cup {NoCode} : CheckIn(caller, code)
         /\ UNCHANGED << calendarVars, schedulerVars, sideVars >>

SpecLifecycle == Init /\ [][NextLifecycle]_vars

\* Inventory: the admin of restaurant 1 deletes tables and switches their
\* availability while bookings for one slot are created and checked in
InventoryCallers == {1}
InventoryRestaurants == {1}
InventoryTables == {1, 4}

NextInventory ==
    \/ \E p \in Procs :
         CreateBooking(p, InventoryCallers, LifecycleStartTimes, 1..MaxGuests)
         /\ UNCHANGED << calendarVars, schedulerVars, sideVars >>
    \/ \E p \in Procs, code \in AllocCodes : CreateBookingCommit(p, code)
         /\ UNCHANGED << calendarVars, schedulerVars, sideVars >>
    \/ \E caller \in AllocStaff, code \in AllocCodes : CheckIn(caller, code)
         /\ UNCHANGED << calendarVars, schedulerVars, sideVars >>
    \/ \E r \in InventoryRestaurants, t \in InventoryTables : TableDelete(r, t)
         /\ UNCHANGED << calendarVars, schedulerVars, sideVars >>
    \/ \E r \in InventoryRestaurants, t \in InventoryTables, value \in BOOLEAN :
         TablePatchAvailable(r, t, value)
         /\ UNCHANGED << calendarVars, schedulerVars, sideVars >>

SpecInventory == Init /\ [][NextInventory]_vars

\* Creation: concurrent create_booking for one valid and one invalid start
\* time, every party size, with cancellation freeing tables
CreateStartTimes == { <<10, 0>>, <<10, 30>> }
CreateCallers == {1}

NextCreate ==
    \/ \E p \in Procs : CreateBooking(p, CreateCallers, CreateStartTimes, 1..MaxGuests)
         /\ UNCHANGED << calendarVars, schedulerVars, sideVars >>
    \/ \E p \in Procs, code \in AllocCodes : CreateBookingCommit(p, code)
         /\ UNCHANGED << calendarVars, schedulerVars, sideVars >>
    \/ \E p \in Procs : CreateBookingCommitError(p)
         /\ UNCHANGED << calendarVars, schedulerVars, sideVars >>
    \/ \E caller \in AllocCancelCallers, b \in 1..MaxBookings : OnlineCancel(caller, b)
         /\ UNCHANGED << calendarVars, schedulerVars, sideVars >>

SpecCreate == Init /\ [][NextCreate]_vars

\* Calendar: the admins change the reservation duration and the operating
\* hours of restaurant 1 while bookings are created and checked in
CalendarDurations == {45, 60, 90}
CalendarHours ==
    { [day_of_week |-> 0, opening_time |-> 540, closing_time |-> 1320],
      [day_of_week |-> 0, opening_time |-> 600, closing_time |-> 720],
      [day_of_week |-> 0, opening_time |-> 600, closing_time |-> 630] }
CalendarRestaurants == {1}
CalendarDates == {0}
CalendarStartTimes == { <<10, 0>> }
CalendarPreferences == { << >>, <<2>> }

CalendarCreateBooking(p) ==
    \E date \in CalendarDates, start_time \in CalendarStartTimes, guest_count \in 1..MaxGuests,
       table_type_info \in CalendarPreferences :
        CreateBookingRead(p, 1,
            [date |-> date, start_time |-> start_time, guest_count |-> guest_count,
             table_type_info |-> table_type_info], "online", 1, TRUE)

NextCalendar ==
    \/ \E p \in Procs : CalendarCreateBooking(p)
         /\ UNCHANGED << calendarVars, schedulerVars, sideVars >>
    \/ \E p \in Procs, code \in AllocCodes : CreateBookingCommit(p, code)
         /\ UNCHANGED << calendarVars, schedulerVars, sideVars >>
    \/ \E caller \in AllocStaff, code \in AllocCodes : CheckIn(caller, code)
         /\ UNCHANGED << calendarVars, schedulerVars, sideVars >>
    \/ \E admin \in AdminIds, r \in CalendarRestaurants, d \in CalendarDurations :
         RestaurantPolicyPatch(admin, r, d)
    \/ \E admin \in AdminIds, r \in CalendarRestaurants, entry \in CalendarHours :
         RestaurantOperatingHoursPut(admin, r, entry)

SpecCalendar == Init /\ [][NextCalendar]_vars

\* Earlier generation: both customers book the 10:00 slot of restaurant 1 and
\* cancel, the scheduler runs the completion jobs, the clock advances
LegacyCallers == {1, 2}
LegacyTableTypeInfos ==
    { << [table_type_id |-> 1, count |-> 1] >>,
      << [table_type_id |-> 2, count |-> 1], [table_type_id |-> 2, count |-> 1] >> }
LegacyGuestCounts == {2}

NextLegacy ==
    \/ \E user_id \in LegacyCallers, guest_count \in LegacyGuestCounts,
          table_type_info \in LegacyTableTypeInfos :
         LegacyCreateBooking(user_id, 1, 0, <<10, 0>>, guest_count, table_type_info)
    \/ \E x \in inflight : LegacyAddJob(x)
    \/ \E user_id \in LegacyCallers, b \in 1..MaxBookings : LegacyCancelRead(user_id, b)
    \/ \E x \in inflight : LegacyCancelCommit(x)
    \/ \E j \in jobs : JobRead(j)
    \/ \E x \in inflight : JobWrite(x)
    \/ \E minutes \in TickSteps : Tick(minutes)
    \/ \E user_id \in LegacyCallers, b \in 1..MaxBookings : UserBookingCancel(user_id, b)

SpecLegacy == Init /\ [][NextLegacy]_vars

\* History: the lifecycle handlers of both generations over one store, so
\* that a statement about every transition is checked against all of them
HistoryCallers == {1}
HistoryProcs == {1}
HistoryTableTypeInfos == { << [table_type_id |-> 1, count |-> 1] >> }

\* the online create_booking of customer 1 for one guest at 10:00 of day 0
HistoryCreateBooking(p) ==
    CreateBookingRead(p, 1,
        [date |-> 0, start_time |-> <<10, 0>>, guest_count |-> 1, table_type_info |-> <<2>>],
        "online", 1, TRUE)

NextHistory ==
    \/ \E p \in HistoryProcs : HistoryCreateBooking(p)
         /\ UNCHANGED << calendarVars, schedulerVars, sideVars >>
    \/ \E p \in HistoryProcs, code \in AllocCodes : CreateBookingCommit(p, code)
         /\ UNCHANGED << calendarVars, schedulerVars, sideVars >>
    \/ \E caller \in HistoryCallers, b \in 1..MaxBookings : OnlineCancel(caller, b)
         /\ UNCHANGED << calendarVars, schedulerVars, sideVars >>
    \/ \E caller \in AllocStaff, code \in AllocCodes : CheckIn(caller, code)
         /\ UNCHANGED << calendarVars, schedulerVars, sideVars >>
    \/ \E user_id \in HistoryCallers, table_type_info \in HistoryTableTypeInfos :
         LegacyCreateBooking(user_id, 1, 0, <<10, 0>>, 1, table_type_info)
    \/ \E x \in inflight : LegacyAddJob(x)
    \/ \E user_id \in HistoryCallers, b \in 1..MaxBookings : LegacyCancelRead(user_id, b)
    \/ \E x \in inflight : LegacyCancelCommit(x)
    \/ \E j \in jobs : JobRead(j)
    \/ \E x \in inflight : JobWrite(x)
    \/ \E minutes \in TickSteps : Tick(minutes)
    \/ \E user_id \in HistoryCallers, b \in 1..MaxBookings : UserBookingCancel(user_id, b)

SpecHistory == Init /\ [][NextHistory]_vars

\* Check-in under fair scheduling: bookings of restaurant 1 are created,
\* cancelled and checked in while the clock advances, and whatever can run
\* eventually runs; src/app schedules no completion job (tasks.py refreshes
\* table availability and food stock only), so the specification has none
NextCheckIn ==
    \/ \E p \in Procs : HistoryCreateBooking(p)
         /\ UNCHANGED << calendarVars, schedulerVars, sideVars >>
    \/ \E p \in Procs, code \in AllocCodes : CreateBookingCommit(p, code)
         /\ UNCHANGED << calendarVars, schedulerVars, sideVars >>
    \/ \E caller \in AllocCancelCallers, b \in 1..MaxBookings : OnlineCancel(caller, b)
         /\ UNCHANGED << calendarVars, schedulerVars, sideVars >>
    \/ \E caller \in AllocStaff, code \in AllocCodes : CheckIn(caller, code)
         /\ UNCHANGED << calendarVars, schedulerVars, sideVars >>
    \/ \E minutes \in TickSteps : Tick(minutes)

SpecCheckInFair == Init /\ [][NextCheckIn]_vars /\ WF_vars(NextCheckIn)

\* Tables: the admins create, update and soft-delete table instances of
\* restaurant 1 and restaurant 2
TablesData ==
    { [table_type_id |-> 1, table_number |-> "T1", capacity |-> 2],
      [table_type_id |-> 1, table_number |-> "T4", capacity |-> 2],
      [table_type_id |-> 2, table_number |-> "T4", capacity |-> 5] }
TablesPosts ==
    { << d >> : d \in TablesData }
    \cup { << d, d >> : d \in { x \in TablesData : x.table_number = "T4" } }
TablesUpdates ==
    { [table_number |-> "T2"], [capacity |-> 5], [table_type_id |-> 2] }
TablesRestaurants == {1}
\* the instances the PATCH and DELETE requests name
TablesTargets == {1, 2, 5}

NextTables ==
    \/ \E admin \in AdminIds, r \in TablesRestaurants, tables_data \in TablesPosts :
         TableListPost(admin, r, tables_data)
         /\ UNCHANGED << calendarVars, schedulerVars, sideVars >>
    \/ \E admin \in AdminIds, r \in TablesRestaurants, t \in TablesTargets,
          update_data \in TablesUpdates :
         TablePatch(admin, r, t, update_data)
         /\ UNCHANGED << calendarVars, schedulerVars, sideVars >>
    \/ \E r \in TablesRestaurants, t \in TablesTargets : TableDelete(r, t)
         /\ UNCHANGED << calendarVars, schedulerVars, sideVars >>

SpecTables == Init /\ [][NextTables]_vars

\* Rollup: two scheduler processes run the daily rollup for the restaurants
\* that are not deleted while the admin changes the policy and the hours
RollupRestaurants == {1, 2}
RollupHours ==
    { [day_of_week |-> 0, opening_time |-> 600, closing_time |-> 720],
      [day_of_week |-> 1, opening_time |-> 600, closing_time |-> 690] }

NextRollup ==
    \/ \E p \in Procs, r \in RollupRestaurants, today \in Dates : DailyStatsRead(p, r, today)
    \/ \E p \in Procs : DailyStatsCommit(p)
    \/ \E admin \in AdminIds, r \in CalendarRestaurants, d \in CalendarDurations :
         RestaurantPolicyPatch(admin, r, d)
    \/ \E admin \in AdminIds, r \in CalendarRestaurants, entry \in RollupHours :
         RestaurantOperatingHoursPut(admin, r, entry)

SpecRollup == Init /\ [][NextRollup]_vars

\* Serial: create_booking, cancel and check-in requests run one at a time; a
\* request starts only when no create_booking is between its queries and
\* its commit
NextSerial ==
    \/ \E p \in HistoryProcs :
         InFlight = 0 /\ CreateBooking(p, AllocCallers, StartTimes, 1..MaxGuests)
         /\ UNCHANGED << calendarVars, schedulerVars, sideVars >>
    \/ \E p \in HistoryProcs, code \in AllocCodes : CreateBookingCommit(p, code)
         /\ UNCHANGED << calendarVars, schedulerVars, sideVars >>
    \/ \E p \in HistoryProcs : CreateBookingCommitError(p)
         /\ UNCHANGED << calendarVars, schedulerVars, sideVars >>
    \/ \E caller \in AllocCancelCallers, b \in 1..MaxBookings :
         InFlight = 0 /\ OnlineCancel(caller, b)
         /\ UNCHANGED << calendarVars, schedulerVars, sideVars >>
    \/ \E caller \in AllocStaff, code \in AllocCodes :
         InFlight = 0 /\ CheckIn(caller, code)
         /\ UNCHANGED << calendarVars, schedulerVars, sideVars >>

SpecSerial == Init /\ [][NextSerial]_vars

\* Food: bookings of restaurant 1 are created and checked in, and the staff
\* send food orders for them from two workers
FoodStaff == {3, 4}
FoodOrders ==
    { << [food_item_id |-> 1, variant_id |-> None, quantity |-> 1] >>,
      << [food_item_id |-> 1, variant_id |-> None, quantity |-> 2] >>,
      << [food_item_id |-> 2, variant_id |-> None, quantity |-> 1] >> }

NextFood ==
    \/ \E p \in HistoryProcs : HistoryCreateBooking(p)
         /\ UNCHANGED << calendarVars, schedulerVars, sideVars >>
    \/ \E p \in HistoryProcs, code \in AllocCodes : CreateBookingCommit(p, code)
         /\ UNCHANGED << calendarVars, schedulerVars, sideVars >>
    \/ \E caller \in AllocStaff, code \in AllocCodes : CheckIn(caller, code)
         /\ UNCHANGED << calendarVars, schedulerVars, sideVars >>
    \/ \E p \in Procs, staff \in FoodStaff, b \in 1..MaxBookings, item_entries \in FoodOrders :
         FoodOrderRead(p, staff, b, item_entries)
    \/ \E p \in Procs : FoodOrderCommit(p)

SpecFood == Init /\ [][NextFood]_vars

\* Slots: the admins change the reservation duration and the operating hours
\* of restaurant 1 and the background tasks enumerate the slots
SlotsHours ==
    { [day_of_week |-> 0, opening_time |-> 600, closing_time |-> 690],
      [day_of_week |-> 1, opening_time |-> 600, closing_time |-> 720],
      [day_of_week |-> 1, opening_time |-> 1320, closing_time |-> 1410] }
SlotsTables == {1, 4, 9}

NextSlots ==
    \/ \E admin \in AdminIds, r \in CalendarRestaurants, d \in CalendarDurations :
         RestaurantPolicyPatch(admin, r, d)
    \/ \E admin \in AdminIds, r \in CalendarRestaurants, entry \in SlotsHours :
         RestaurantOperatingHoursPut(admin, r, entry)
    \/ \E tomorrow \in Dates : ScheduleDailyUpdates(tomorrow)
    \/ \E table_id \in SlotsTables, date \in Dates : InitializeDailyAvailability(table_id, date)

SpecSlots == Init /\ [][NextSlots]_vars

(***************************************************************************)
(* Properties                                                              *)
(***************************************************************************)
NonTerminal == {"pending", "active"}

\* the booking_table rows of a booking, as table ids
TablesOf(rows, booking_id) == { r.table_id : r \in { x \in rows : x.booking_id = booking_id } }

\* the non-terminal bookings that hold table t on the date at the start time
Holders(t, date, start_time) ==
    { b \in BookingIds :
        /\ bookings[b].status \in NonTerminal
        /\ bookings[b].date = date
        /\ bookings[b].start_time = start_time
        /\ t \in TablesOf(bookingTables, b) }

RECURSIVE CapacitySum(_)
CapacitySum(S) ==
    IF S = {} THEN 0
    ELSE LET t == CHOOSE x \in S : TRUE IN tables[t].capacity + CapacitySum(S \ {t})

\* C1: in every reachable state each table instance is held, for one date and
\* start time, by at most one booking with status pending or active
NoDoubleBooking ==
    \A t \in TableIds, date \in Dates, start_time \in StartTimes :
        Cardinality(Holders(t, date, start_time)) <= 1

\* a create_booking answer other than 201 comes with no change of the rows
FailedAttemptWritesNothing ==
    (resp'.op = "create_booking" /\ resp'.status # 201)
        => (bookings' = bookings /\ bookingTables' = bookingTables)

\* the commit appends one booking and exactly the rows of the selected tables
CommitWritesAllRows ==
    \A p \in Procs :
        (pc[p] = "commit" /\ pc'[p] = "idle" /\ resp'.status = 201)
            => /\ Len(bookings') = Len(bookings) + 1
               /\ SubSeq(bookings', 1, Len(bookings)) = bookings
               /\ bookingTables' = bookingTables \cup
                    { [booking_id |-> Len(bookings'), table_id |-> t] :
                        t \in SeqToSet(req[p].selected_tables) }

\* booking and booking_table rows appear only with a 201 answer of create_booking
RowsOnlyFromSuccessfulCreate ==
    (Len(bookings') # Len(bookings) \/ bookingTables' # bookingTables)
        => (resp'.op = "create_booking" /\ resp'.status = 201)

\* C2: a create_booking attempt that answers anything but 201 leaves the
\* booking and booking_table rows as they were, and a booking row is only
\* ever committed together with exactly the booking_table rows of the tables
\* the request selected
AllOrNothing ==
    [][FailedAttemptWritesNothing /\ CommitWritesAllRows /\ RowsOnlyFromSuccessfulCreate]_vars

\* a create_booking was refused for lack of tables after another had succeeded
FailedAttemptWitness ==
    /\ resp.op = "create_booking"
    /\ resp.status = 400
    /\ resp.message = "Not enough tables available."
    /\ Len(bookings) > 0

\* C3: a create_booking whose selected tables were taken by another booking
\* before its commit is answered "Not enough tables available."
RaceLostReportsInsufficientCapacity ==
    [][\A p \in Procs :
        ( /\ pc[p] = "commit"
          /\ pc'[p] = "idle"
          /\ SeqToSet(req[p].selected_tables)
               \cap booked_table_ids(req[p].restaurant_id, req[p].date, req[p].start_time) # {} )
        => (resp'.status = 400 /\ resp'.message = "Not enough tables available.")]_vars

\* C4: every booking a create_booking commits has at least one table, and the
\* capacities of its tables sum to at least its guest_count
CapacityCoversGuests ==
    [][Len(bookings') = Len(bookings) + 1
        => LET b == Len(bookings')
               committed == TablesOf(bookingTables', b)
           IN  /\ committed # {}
               /\ CapacitySum(committed) >= bookings'[b].guest_count]_vars

\* a booking was committed with two tables
MultiTableBookingWitness ==
    \E b \in BookingIds :
        /\ Cardinality(TablesOf(bookingTables, b)) >= 2
        /\ CapacitySum(TablesOf(bookingTables, b)) >= bookings[b].guest_count

\* position of the first occurrence of a type in the preference list
FirstPosition(ty, table_type_info) ==
    IF ty \in SeqToSet(table_type_info)
    THEN (CHOOSE i \in 1..Len(table_type_info) :
            /\ table_type_info[i] = ty
            /\ \A j \in 1..(i - 1) : table_type_info[j] # ty) - 1
    ELSE Infinity

PreferenceLess(a, b, table_type_info) ==
    LET pa == FirstPosition(tables[a].table_type_id, table_type_info)
        pb == FirstPosition(tables[b].table_type_id, table_type_info)
    IN  pa < pb \/ (pa = pb /\ a < b)

RECURSIVE PreferenceOrder(_, _)
PreferenceOrder(S, table_type_info) ==
    IF S = {} THEN << >>
    ELSE LET first == CHOOSE a \in S : \A b \in S \ {a} : PreferenceLess(a, b, table_type_info)
         IN  << first >> \o PreferenceOrder(S \ {first}, table_type_info)

PrefixCapacity(order, n) == CapacitySum({ order[i] : i \in 1..n })

\* C5: the selected tables are the shortest prefix, with capacity >= guest_count,
\* of the candidates ordered by position of their type in the preference list
\* (unlisted types last) and then by id
SelectionIsPreferenceFirstFit ==
    \A date \in Dates, start_time \in StartTimes, guest_count \in 1..MaxGuests,
       table_type_info \in PreferenceLists :
        LET r == CreateBookingQueries(
                    [date |-> date, start_time |-> start_time, guest_count |-> guest_count,
                     table_type_info |-> table_type_info], 1, "walkin", TRUE)
            order == PreferenceOrder(available_tables(1, date, start_time), table_type_info)
            n == Len(r.selected_tables)
        IN  r.status = 0
            => /\ n >= 1
               /\ r.selected_tables = SubSeq(order, 1, n)
               /\ PrefixCapacity(order, n) >= guest_count
               /\ PrefixCapacity(order, n - 1) < guest_count

\* a table the allocator may take for the restaurant, date and start time
EligibleTable(t, restaurant_id, date, start_time) ==
    /\ ~tables[t].is_deleted
    /\ ~tableTypes[tables[t].table_type_id].is_deleted
    /\ tables[t].is_available
    /\ tableTypes[tables[t].table_type_id].restaurant_id = restaurant_id
    /\ Holders(t, date, start_time) = {}

\* C6: the tables a create_booking selects are, when it queries them, live
\* tables of live types of its restaurant, available, and not held
SelectedTablesEligible ==
    [][\A p \in Procs :
        (pc[p] = "idle" /\ pc'[p] = "commit")
        => \A t \in SeqToSet(req'[p].selected_tables) :
              EligibleTable(t, req'[p].restaurant_id, req'[p].date, req'[p].start_time)]_vars

\* instances of a type that are not deleted / that are held at a slot
LiveInstances(ty) ==
    { t \in TableIds : tables[t].table_type_id = ty /\ ~tables[t].is_deleted }

HeldInstances(ty, date, start_time) ==
    { t \in TableIds : tables[t].table_type_id = ty /\ Holders(t, date, start_time) # {} }

\* C7: for every table type and slot of an open date the calculator reports
\* max(0, live instances - instances held by pending or active bookings), and
\* reports 0 exactly when the allocator has no free table of the type
AvailabilityMatchesAllocator ==
    \A date \in Dates :
        LET a == AvailableTablesForDate(1, date)
        IN  (a.status = 200 /\ Len(a.slots) > 0)
            => \A ty \in { x \in ListedTableTypes(1) : ~tableTypes[x].is_deleted } :
                 \A i \in 1..Len(a.slots) :
                    /\ a.data[ty][i] =
                         Max(0, Cardinality(LiveInstances(ty))
                                - Cardinality(HeldInstances(ty, date, a.slots[i])))
                    /\ (a.data[ty][i] = 0) <=>
                         ({ t \in available_tables(1, date, a.slots[i]) :
                              tables[t].table_type_id = ty } = {})

\* C8: once the booking that holds table T at a slot is cancelled, T is a
\* candidate for the slot again, and a request for a party of T's capacity
\* with T first in the sort order selects exactly T
CancelFreesTable ==
    [][\A b \in BookingIds :
        (bookings[b].status = "pending" /\ bookings'[b].status = "cancelled")
        => \A T \in TablesOf(bookingTables, b) :
             IsAvailableTable(T, bookings[b].restaurant_id, {})
             => /\ T \in available_tables(bookings[b].restaurant_id, bookings[b].date,
                                          bookings[b].start_time)'
                /\ LET r == CreateBookingQueries(
                              [date |-> bookings[b].date, start_time |-> bookings[b].start_time,
                               guest_count |-> tables[T].capacity,
                               table_type_info |-> << tables[T].table_type_id >>],
                              bookings[b].restaurant_id, "walkin", TRUE)'
                   IN  (\A u \in TableIds :
                            tables[u].table_type_id = tables[T].table_type_id => T <= u)
                       => (r.status = 0 /\ r.selected_tables = << T >>)]_vars

\* the outcome sets the booking to cancelled
Cancels(o, b) == o.new_status = "cancelled" /\ o.booking_id = b

\* C9: a cancel request cancels the booking exactly when the booking is
\* pending and the requester owns it (user_id for an online booking, the
\* check-in code presented by staff for a walk-in booking); otherwise it
\* fails and writes nothing
CancelIffPendingOwner ==
    \A b \in BookingIds :
        /\ \A caller \in { u \in UserIds : UserRole(u) = "user" } :
             LET o == OnlineCancelPatch(caller, b)
             IN  /\ Cancels(o, b) <=> ( /\ bookings[b].status = "pending"
                                       /\ bookings[b].source = "online"
                                       /\ bookings[b].user_id = caller )
                 /\ ~Cancels(o, b) => (o.status # 200 /\ o.new_status = "unchanged")
        /\ \A caller \in { u \in UserIds : UserRole(u) = "staff"
                                           /\ UserRestaurant(u) = bookings[b].restaurant_id },
              code \in CheckinCodes :
             LET o == WalkinCancelPatch(caller, b, code)
             IN  /\ Cancels(o, b) <=> ( /\ bookings[b].status = "pending"
                                       /\ bookings[b].source = "walkin"
                                       /\ bookings[b].checkin_code = code )
                 /\ ~Cancels(o, b) => (o.status # 200 /\ o.new_status = "unchanged")

\* C10: checking in with the code of a pending booking activates that
\* booking; checking in with the code of a booking already activated is
\* refused as already processed and changes no status
CheckInRoundTrip ==
    \A b \in BookingIds, caller \in { u \in UserIds : UserRole(u) = "staff" } :
        \A o \in CheckInOutcomes(caller, bookings[b].checkin_code) :
            /\ bookings[b].status = "pending"
                 => (o.status = 200 /\ o.booking_id = b /\ o.new_status = "active")
            /\ bookings[b].status = "active"
                 => ( /\ o.status = 400
                      /\ o.message = "Booking already checked in or canceled."
                      /\ o.new_status = "unchanged" )

\* a booking that occupies a table: pending or active
ReferencedByOpenBooking(t) ==
    \E r \in bookingTables : r.table_id = t /\ bookings[r.booking_id].status \in NonTerminal

\* C16: no step soft-deletes a table instance that a pending or active
\* booking references: the DELETE is refused and the instance stays
SoftDeleteRefusedWhileReferenced ==
    [][ \A t \in TableIds :
            (~tables[t].is_deleted /\ ReferencedByOpenBooking(t)) => ~tables'[t].is_deleted ]_vars

\* the closed form of the slot grid: opening + k*d for k = 0 .. floor((closing - opening)/d) - 1
ExpectedSlotCount(opening, closing, d) == Max(0, (closing - opening) \div d)
ExpectedSlots(opening, closing, d) ==
    [ k \in 1..ExpectedSlotCount(opening, closing, d) |-> FormatHHMM(opening + (k - 1) * d) ]

\* C17: for every operating-hours row and reservation duration the handlers
\* can meet, generate_time_slots returns exactly the closed-form grid: it
\* starts at the opening time, steps by the duration, has no slot that ends
\* after the closing time, and is empty when the window is shorter than one slot
SlotGridIsClosedForm ==
    \A r \in DOMAIN policies : \A h \in RestaurantHours(r) :
        LET d == ReservationDuration(r)
            slots == generate_time_slots(h.opening_time, h.closing_time, d)
        IN  /\ slots = ExpectedSlots(h.opening_time, h.closing_time, d)
            /\ Len(slots) > 0 => slots[1] = FormatHHMM(h.opening_time)
            /\ h.opening_time + Len(slots) * d <= h.closing_time
            /\ h.closing_time - h.opening_time < d => slots = << >>

\* 09:00-22:00 with 90-minute slots is in force and create_booking has
\* rejected a start time that is off that grid
UnevenGridWitness ==
    /\ policies[1].reservation_duration = 90
    /\ \E h \in RestaurantHours(1) : h.opening_time = 540 /\ h.closing_time = 1320
    /\ generate_time_slots(540, 1320, 90) =
         << <<9, 0>>, <<10, 30>>, <<12, 0>>, <<13, 30>>, <<15, 0>>, <<16, 30>>,
            <<18, 0>>, <<19, 30>> >>
    /\ resp = Response("create_booking", 400, "Invalid start time")

\* the slot grid of a restaurant on a date; empty when the date has no hours row
SlotGrid(restaurant_id, date) ==
    LET hours == get_opening_closing_time(date, RestaurantHours(restaurant_id))
    IN  IF hours.is_none THEN << >>
        ELSE generate_time_slots(hours.opening_time, hours.closing_time,
                                 ReservationDuration(restaurant_id))

\* C18: every booking's start_time is on the slot grid of its restaurant for
\* the booking's date, under the operating hours and policy now in force
BookingsOnSlotGrid ==
    \A b \in BookingIds :
        bookings[b].start_time \in SeqToSet(SlotGrid(bookings[b].restaurant_id, bookings[b].date))

\* the calculator serves the restaurant and the date's weekday has an hours row
OpenDate(restaurant_id, date) ==
    /\ ~RestaurantDeleted(restaurant_id)
    /\ HasPolicy(restaurant_id)
    /\ ~get_opening_closing_time(date, RestaurantHours(restaurant_id)).is_none

\* the weekday of the date has no hours row of the restaurant
ClosedDate(restaurant_id, date) ==
    get_opening_closing_time(date, RestaurantHours(restaurant_id)).is_none

ClosedDiffersFromFullyBooked ==
    \A r \in RestaurantIds, date \in Dates :
        LET a == AvailableTablesForDate(r, date)
        IN  /\ OpenDate(r, date) => a.message = "availability data fetched successfully"
            /\ ClosedDate(r, date) =>
                 /\ a.message \in {"The restaurant is on holiday on that date", "not found"}
                 /\ (~RestaurantDeleted(r) /\ HasPolicy(r) /\ RestaurantHours(r) # {}) =>
                        (a.status = 200 /\ a.message = "The restaurant is on holiday on that date")
                 /\ \A other \in Dates :
                        OpenDate(r, other) => AvailableTablesForDate(r, other) # a

\* date 1 is closed while date 0 is open and fully booked: every table of
\* the restaurant is held by an active booking at every slot of the grid
ClosedAndFullyBookedWitness ==
    LET full == AvailableTablesForDate(1, 0)
    IN  /\ ClosedDate(1, 1)
        /\ OpenDate(1, 0)
        /\ Len(full.slots) > 0
        /\ \A ty \in DOMAIN full.data, i \in 1..Len(full.slots) : full.data[ty][i] = 0
        /\ \E ty \in DOMAIN full.data : total_table_count(ty) > 0

AllowedTransitions ==
    { <<"pending", "active">>, <<"pending", "cancelled">>,
      <<"active", "completed">>, <<"active", "no_show">> }

\* C11: every status change of a booking, by any handler or job, is pending
\* to active, pending to cancelled, active to completed or active to no_show;
\* hence a completed, cancelled or no_show booking never changes again
OnlyAllowedTransitions ==
    [][ \A b \in BookingIds :
            bookings'[b].status # bookings[b].status =>
                << bookings[b].status, bookings'[b].status >> \in AllowedTransitions ]_vars

\* C12: once a booking's cancellation is committed, no run of its completion
\* job changes its status to completed
CancelledNeverCompleted ==
    [][ \A b \in BookingIds :
            bookings[b].status = "cancelled" => bookings'[b].status # "completed" ]_vars

\* C13: a second run of mark_booking_completed on a booking changes nothing
\* after the first; the first run sets status = completed on an active booking
\* and touches no other field or row; a run on a booking that is not active
\* changes nothing
CompletionIsIdempotent ==
    \A b \in BookingIds :
        LET once == mark_booking_completed(bookings, b)
            twice == mark_booking_completed(once, b)
        IN  /\ twice = once
            /\ bookings[b].status = "active" =>
                 once = [bookings EXCEPT ![b].status = "completed"]
            /\ bookings[b].status # "active" => once = bookings

\* the job has completed one booking while another one is cancelled
CompletedAndCancelledWitness ==
    /\ \E b \in BookingIds : bookings[b].status = "completed"
    /\ \E b \in BookingIds : bookings[b].status = "cancelled"

SlotEnded(b) ==
    now >= BookingDatetime(bookings[b].date, bookings[b].start_time)
           + ReservationDuration(bookings[b].restaurant_id)

IsActive(b) == b \in BookingIds /\ bookings[b].status = "active"

\* C14: a booking that is active after the end of its slot eventually leaves
\* active (the background job completes it, unless another transition does)
ActiveEventuallyCompleted ==
    \A b \in 1..MaxBookings : (IsActive(b) /\ SlotEnded(b)) ~> ~IsActive(b)

\* C21: every non-deleted table instance has a capacity within
\* [minimum_capacity, maximum_capacity] of the table type it belongs to
CapacityWithinTypeRange ==
    \A t \in TableIds :
        ~tables[t].is_deleted =>
            ~CapacityOutOfRange(tables[t].capacity, tables[t].table_type_id)

\* C22: no two non-deleted table instances of one restaurant carry the same
\* table_number
TableNumbersUnique ==
    \A t, u \in TableIds :
        ( /\ t # u
          /\ ~tables[t].is_deleted
          /\ ~tables[u].is_deleted
          /\ tableTypes[tables[t].table_type_id].restaurant_id
               = tableTypes[tables[u].table_type_id].restaurant_id )
        => tables[t].table_number # tables[u].table_number

\* a number freed by a soft delete is in use again by another instance, and
\* a POST that listed one new number twice has created it once
NumberReusedWitness ==
    /\ \E t, u \in TableIds :
         /\ tables[t].is_deleted
         /\ ~tables[u].is_deleted
         /\ tables[t].table_number = tables[u].table_number
         /\ tableTypes[tables[t].table_type_id].restaurant_id
              = tableTypes[tables[u].table_type_id].restaurant_id
    /\ resp = Response("table_post", 207, "Some tables couldn't be created due to errors.")
    /\ Cardinality({ t \in TableIds : tables[t].table_number = "T4" }) = 1

\* the date ranges of the dashboards: today, this week (Monday to Sunday) and
\* the ranges a caller of the performance report may send
RollupRanges ==
    { << d, d >> : d \in Dates } \cup { << 0, 6 >> } \cup { << 0, 1 >> }

\* C23: the occupancy-rate computations return rate 0 and raise no error
\* whenever the slot count or the table-instance count of the range is 0
OccupancyGuardedAgainstZero ==
    /\ \A r \in { x \in DOMAIN policies : ~RestaurantDeleted(x) }, range \in RollupRanges :
         LET slot_count == get_total_slots_in_range(get_slots_per_working_day(r),
                                                    range[1], range[2])
             res == DashboardOccupancy(r, range[1], range[2])
         IN  (slot_count = 0 \/ InstanceCount(r) = 0) => (~res.raised /\ res.rate = 0)
    /\ \A total_bookings \in 0..MaxBookings :
         utilization_rate(total_bookings, 0) = Rate(0)

\* the slot count of one hours row as each rollup uses it, against the
\* number of slots of the grid
RollupCountsOfRow(r, h) ==
    LET per_day == get_slots_per_working_day(r)
    IN  [grid |-> Len(generate_time_slots(h.opening_time, h.closing_time,
                                          ReservationDuration(r))),
         dashboard |-> IF h.day_of_week \in DOMAIN per_day THEN per_day[h.day_of_week] ELSE 0,
         daily |-> DailyStatsTotalSlots(h.opening_time, h.closing_time,
                                        ReservationDuration(r))]

\* C24: for every weekday with operating hours, the per-day slot count the
\* rollups use (get_slots_per_working_day, dailyStatsEntry) equals the number
\* of slots generate_time_slots produces for the day
RollupSlotCountMatchesGrid ==
    \A r \in DOMAIN policies : \A h \in RestaurantHours(r) :
        LET c == RollupCountsOfRow(r, h)
        IN  c.dashboard = c.grid /\ c.daily = c.grid

\* the rows of the restaurant and date
RollupRowsOf(restaurant_id, date) ==
    { i \in 1..Len(dailyStats) :
        dailyStats[i].restaurant_id = restaurant_id /\ dailyStats[i].date = date }

\* C25: however often the daily rollup runs for a restaurant and date, one
\* after the other or overlapping, there is never more than the one
\* DailyStats row the first run wrote for them
OneRollupRowPerDay ==
    \A r \in RestaurantIds, date \in Dates : Cardinality(RollupRowsOf(r, date)) <= 1

\* two different bookings of one date and start time, both pending or active
SameSlotOpenBookings ==
    { pair \in BookingIds \X BookingIds :
        /\ pair[1] < pair[2]
        /\ bookings[pair[1]].status \in NonTerminal
        /\ bookings[pair[2]].status \in NonTerminal
        /\ bookings[pair[1]].date = bookings[pair[2]].date
        /\ bookings[pair[1]].start_time = bookings[pair[2]].start_time }

\* C26: when requests run one at a time, two pending or active bookings of
\* the same date and start_time never share a table instance
SerialRequestsNeverShareTable ==
    \A pair \in SameSlotOpenBookings :
        TablesOf(bookingTables, pair[1]) \cap TablesOf(bookingTables, pair[2]) = {}

\* two open bookings of one restaurant sit in the same slot, each on its own table
TwoBookingsOneSlotWitness ==
    \E pair \in SameSlotOpenBookings :
        /\ bookings[pair[1]].restaurant_id = bookings[pair[2]].restaurant_id
        /\ TablesOf(bookingTables, pair[1]) # {}
        /\ TablesOf(bookingTables, pair[2]) # {}

\* C27: a check-in request of a staff member activates only a booking of the
\* staff member's own restaurant
CheckInStaysInRestaurant ==
    \A caller \in { u \in UserIds : UserRole(u) = "staff" }, code \in CheckinCodes :
        \A o \in CheckInOutcomes(caller, code) :
            o.new_status = "active"
                => bookings[o.booking_id].restaurant_id = UserRestaurant(caller)

\* the step answers a cancel request with status 200
CancelAnsweredWithSuccess ==
    /\ resp' # resp
    /\ resp'.op \in {"legacy_cancel", "userbooking_cancel"}
    /\ resp'.status = 200

\* C28: whenever the cancel endpoint answers 200 with a message that the
\* booking is cancelled, the step has stored status cancelled for a booking,
\* and none of its tables is counted as booked for its slot any more
CancelSuccessMeansCancelled ==
    [][ CancelAnsweredWithSuccess =>
          \E b \in BookingIds :
            /\ bookings[b].status # "cancelled"
            /\ bookings'[b].status = "cancelled"
            /\ TablesOf(bookingTables', b)
                 \cap already_booked_table_ids(bookings[b].restaurant_id, bookings[b].date,
                                               bookings[b].start_time)' = {} ]_vars

RECURSIVE OrderedQuantity(_, _)
OrderedQuantity(key, n) ==
    IF n = 0 THEN 0
    ELSE (IF /\ << orderItems[n].food_item_id, orderItems[n].variant_id >> = key
             /\ ~orderItems[n].deleted
          THEN orderItems[n].quantity ELSE 0) + OrderedQuantity(key, n - 1)

\* C29: for every stock entry, current_stock plus the quantity of the item
\* and variant over all stored order items equals the stock before the
\* requests, and current_stock is never negative
StockConserved ==
    \A key \in DOMAIN stock :
        /\ stock[key] + OrderedQuantity(key, Len(orderItems)) = InitStock[key]
        /\ stock[key] >= 0

\* C30: a slot enumeration of a background task over opening hours with
\* opening before closing and an interval of at least one minute returns,
\* and every slot it produced ends no later than the closing time
SlotEnumerationsEndByClosing ==
    \A r \in RestaurantIds :
        LET run == slotRuns[r]
        IN  (/\ run # NoSlotRun
             /\ run.opening_time < run.closing_time
             /\ run.interval_minutes >= 1)
            => /\ run.returns
               /\ \A i \in 1..Len(run.slots) :
                    run.slots[i] + run.interval_minutes <= run.closing_time

====
